---------------------------- MODULE Spec2Model ----------------------------
(***************************************************************************)
(* Duty lifecycle, PIREP review and roster replacement of the IndGo         *)
(* virtual-airline backend.                                                 *)
(*                                                                          *)
(* The repository holds several revisions of server.js.  Two are modelled:  *)
(*   - src/unnamed/part_001, the latest revision (rank gating, multiplier,  *)
(*     verification image): specifications Spec (each handler runs to       *)
(*     completion) and SpecConc (handlers interleave at their awaits);      *)
(*   - src/server.js: specification SpecSrv (handlers run to completion);   *)
(*     its definitions carry the suffix _srv.                               *)
(*                                                                          *)
(* Hours are kept in hundredths of an hour (H(1) = 100) so that the roster  *)
(* multiplier (1.10 .. 1.50, two decimals) stays in integer arithmetic.     *)
(* Date.now() is the variable now, in hours.                                *)
(*                                                                          *)
(* A handler is an operator from the store and the request to its outcome:  *)
(* the response (resp) and the collections as the handler leaves them.  The *)
(* action of the same name in capitals applies the outcome to the store.    *)
(***************************************************************************)
EXTENDS Integers, Sequences, FiniteSets, TLC

VARIABLES
    now,        \* Date.now(), hours since the start of the run
    users,      \* the User collection: pilot id -> document
    rosters,    \* the Roster collection: roster _id -> document
    nextRoster, \* the next fresh roster _id
    pireps,     \* the Pirep collection: sequence of documents, _id = index
    req         \* requests in flight (SpecConc): slot -> handler position and locals

vars == <<now, users, rosters, nextRoster, pireps, req>>

\* null for a document or sub-document, for a date or an _id, for a string
NULL == [null |-> TRUE]
NONE == -1

(***************************************************************************)
(* Bounds of the model.                                                    *)
(***************************************************************************)
NumPilots == 1
MaxPireps == 2
MaxRosterId == 2
MaxTick == 2

H(n) == n * 100

(***************************************************************************)
(* Strings whose characters matter (flight numbers, airports, aircraft)    *)
(* are tuples of one-character strings.                                    *)
(***************************************************************************)
LowerLetters == <<"a","b","c","d","e","f","g","h","i","j","k","l","m",
                  "n","o","p","q","r","s","t","u","v","w","x","y","z">>
UpperLetters == <<"A","B","C","D","E","F","G","H","I","J","K","L","M",
                  "N","O","P","Q","R","S","T","U","V","W","X","Y","Z">>

Letters == {LowerLetters[k] : k \in DOMAIN LowerLetters}
               \cup {UpperLetters[k] : k \in DOMAIN UpperLetters}
Chars == Letters \cup {"0","1","2","3","4","5","6","7","8","9","-"," "}

UpperChar ==
    [c \in Chars |->
        IF \E k \in DOMAIN LowerLetters : LowerLetters[k] = c
        THEN UpperLetters[CHOOSE k \in DOMAIN LowerLetters : LowerLetters[k] = c]
        ELSE c]

\* String.prototype.toUpperCase
toUpperCase(s) == [i \in DOMAIN s |-> UpperChar[s[i]]]

\* RegExp(pat, 'i').test(s) for a literal pattern: pat occurs in s, ignoring case
Includes(s, pat) ==
    \E i \in 1..(Len(s) - Len(pat) + 1) :
        toUpperCase(SubSeq(s, i, i + Len(pat) - 1)) = toUpperCase(pat)

has(s, alternatives) == \E a \in alternatives : Includes(s, a)

(***************************************************************************)
(* Rank tiers (part_001).                                                  *)
(***************************************************************************)
pilotRanks ==
    << "IndGo Cadet", "Skyline Observer", "Route Explorer", "Skyline Officer",
       "Command Captain", "Elite Captain", "Blue Eagle", "Line Instructor",
       "Chief Flight Instructor", "IndGo SkyMaster", "Blue Legacy Commander" >>

rankThresholds ==
    << H(0), H(50), H(100), H(180), H(300), H(500), H(750), H(1000),
       H(1400), H(1800), H(2300) >>

\* fault: a rank outside the tier list taken for the lowest tier
rankIndex_unknownIsLowest(r) ==
    IF \E i \in DOMAIN pilotRanks : pilotRanks[i] = r
    THEN (CHOOSE i \in DOMAIN pilotRanks : pilotRanks[i] = r) - 1
    ELSE 0

\* pilotRanks.indexOf(r), 0-based; -1 when absent ('' and 'Unknown' included)
rankIndex(r) ==
    IF \E i \in DOMAIN pilotRanks : pilotRanks[i] = r
    THEN (CHOOSE i \in DOMAIN pilotRanks : pilotRanks[i] = r) - 1
    ELSE -1

\* fault: the rank comparison dropped, membership of the tier list kept
canFlyLeg_anyTier(userRank, legRank) ==
    rankIndex(userRank) >= 0 /\ rankIndex(legRank) >= 0

canFlyLeg(userRank, legRank) ==
    LET ui == rankIndex(userRank)
        li == rankIndex(legRank)
    IN  ui >= 0 /\ li >= 0 /\ li <= ui

deduceRankFromAircraft(acStr) ==
    LET s == toUpperCase(acStr)
    IN  IF Len(s) = 0 THEN "Unknown"
        ELSE IF has(s, {<<"Q","4","0","0">>, <<"A","3","2","0">>, <<"B","7","3","8">>})
             THEN "IndGo Cadet"
        ELSE IF has(s, {<<"A","3","2","1">>, <<"B","7","3","7">>})
             THEN "Skyline Observer"
        ELSE IF has(s, {<<"A","3","3","0">>, <<"B","3","8","M">>})
             THEN "Route Explorer"
        ELSE IF has(s, {<<"7","8","7","-","8">>, <<"7","7","7","-","2","0","0","L","R">>})
             THEN "Skyline Officer"
        ELSE IF has(s, {<<"7","8","7","-","9">>, <<"7","7","7","-","3","0","0","E","R">>})
             THEN "Command Captain"
        ELSE IF has(s, {<<"A","3","5","0">>})
             THEN "Elite Captain"
        ELSE IF has(s, {<<"A","3","8","0">>, <<"7","4","7">>, <<"7","4","4">>})
             THEN "Blue Eagle"
        ELSE IF has(s, {<<"I","N","S","T","R","U","C","T","O","R">>})
             THEN "Line Instructor"
        ELSE IF has(s, {<<"C","H","I","E","F">>})
             THEN "Chief Flight Instructor"
        ELSE IF has(s, {<<"S","K","Y","M","A","S","T","E","R">>})
             THEN "IndGo SkyMaster"
        ELSE IF has(s, {<<"C","O","M","M","A","N","D","E","R">>})
             THEN "Blue Legacy Commander"
        ELSE "Unknown"

\* Roster legs as stored carry no rankUnlock (RosterSchema has no such path),
\* so leg.rankUnlock is undefined unless the leg record has the field.
getLegRequiredRank(leg) ==
    IF "rankUnlock" \in DOMAIN leg
       /\ rankIndex(leg.rankUnlock) >= 0
    THEN leg.rankUnlock
    ELSE deduceRankFromAircraft(leg.aircraft)

\* fault: a tier is reached only above its threshold
checkAndApplyRankUpdate_aboveThreshold(pilot) ==
    LET reached == {i \in DOMAIN pilotRanks : pilot.flightHours > rankThresholds[i]}
        newRank == IF reached = {} THEN pilot.rank
                   ELSE pilotRanks[CHOOSE i \in reached : \A j \in reached : j <= i]
    IN  [promoted |-> newRank # pilot.rank, rank |-> newRank]

\* the highest tier whose threshold is reached, scanning from the top
checkAndApplyRankUpdate(pilot) ==
    LET reached == {i \in DOMAIN pilotRanks : pilot.flightHours >= rankThresholds[i]}
        newRank == IF reached = {} THEN pilot.rank
                   ELSE pilotRanks[CHOOSE i \in reached : \A j \in reached : j <= i]
    IN  [promoted |-> newRank # pilot.rank, rank |-> newRank]


(***************************************************************************)
(* Program constants (part_001, lines 88-91, 647).                         *)
(***************************************************************************)
MIN_REST_PERIOD == 8
MAX_DAILY_FLIGHT_HOURS == H(10)
MAX_MONTHLY_FLIGHT_HOURS == H(100)
rosterCountPerAirport == 3
\* oneMonthAgo.setMonth(getMonth() - 1): one calendar month, taken as 30 days
OneMonth == 720

(***************************************************************************)
(* Inputs.                                                                 *)
(***************************************************************************)
Pilots == 1..NumPilots
Staff == {"pm1", "pm2"}

VIDP == <<"V","I","D","P">>
VABB == <<"V","A","B","B">>
VOBL == <<"V","O","B","L">>
vidp == <<"v","i","d","p">>

FN1 == <<"6","E","1">>
fn1 == <<"6","e","1">>
FN2 == <<"6","E","2">>
FN3 == <<"6","E","3">>

A320 == <<"A","3","2","0">>
A321 == <<"A","3","2","1">>
C172 == <<"C","1","7","2">>

Leg(fn, dep, arr, ac, ft) ==
    [flightNumber |-> fn, departure |-> dep, arrival |-> arr,
     aircraft |-> ac, flightTime |-> ft]

\* the instants at which requests arrive: the start, the last instant inside
\* and the first instant after an 8 h rest begun at the start, and instants
\* on both sides of the one-month boundary
Instants == <<0, 7, 8, 720, 721, 729, 1441, 1442>>

NewUser ==
    [rank |-> "IndGo Cadet", flightHours |-> 0,
     dutyStatus |-> "ON_REST", currentRoster |-> NONE,
     lastDutyStart |-> NONE, lastDutyOff |-> NONE,
     dailyFlightHours |-> 0, monthlyFlightHours |-> 0,
     lastHourReset |-> 0,
     lastKnownAirport |-> VIDP, lastDutyAirport |-> << >>]

\* res.status(code).json(...): msg names the message, info its numbers;
\* who is the pilot of a pilot request, 0 for a staff request
ResponseInfo(op, who, code, msg, info) ==
    [op |-> op, who |-> who, code |-> code, msg |-> msg, info |-> info]

Response(op, who, code, msg) == ResponseInfo(op, who, code, msg, << >>)

Slots == {1, 2}
Idle == [op |-> "idle", pc |-> "idle"]

\* Model.findById(id): the document, or null
FindRoster(id) == IF id \in DOMAIN rosters THEN rosters[id] ELSE NULL

\* document.save(): the paths assigned since the document was loaded (those
\* whose value differs from the loaded one) are $set on the stored document
SaveUser(stored, loaded, doc) ==
    [f \in DOMAIN stored |-> IF doc[f] # loaded[f] THEN doc[f] ELSE stored[f]]

Init ==
    /\ now = Instants[1]
    /\ users = [p \in Pilots |-> NewUser]
    /\ rosters = << >>
    /\ nextRoster = 1
    /\ pireps = << >>
    /\ req = [i \in Slots |-> Idle]

\* time passes between requests
Tick ==
    /\ \E k \in DOMAIN Instants :
          /\ k <= MaxTick + 1
          /\ Instants[k] > now
          /\ now' = Instants[k]
    /\ UNCHANGED <<users, rosters, nextRoster, pireps, req>>

(***************************************************************************)
(* Rosters: schema, manual creation, deletion, generation (part_001).      *)
(***************************************************************************)
RECURSIVE SumFlightTime(_)
SumFlightTime(legs) ==
    IF legs = << >> THEN 0
    ELSE legs[1].flightTime + SumFlightTime(Tail(legs))

\* a leg as the RosterSchema stores it: the five declared paths only
\* (operator and rankUnlock are not in the schema and are dropped),
\* departure and arrival upper-cased
StoredLeg(l) ==
    Leg(l.flightNumber, toUpperCase(l.departure), toUpperCase(l.arrival),
        l.aircraft, l.flightTime)

\* RosterSchema validation as run by save() and insertMany()
RosterValid(doc) ==
    /\ Len(doc.hub) > 0
    /\ \A i \in DOMAIN doc.legs :
          /\ Len(doc.legs[i].flightNumber) > 0
          /\ Len(doc.legs[i].departure) > 0
          /\ Len(doc.legs[i].arrival) > 0
          /\ Len(doc.legs[i].aircraft) > 0
          /\ doc.legs[i].flightTime >= 10
    /\ doc.totalFlightTime >= 0
    /\ doc.multiplier >= 100 /\ doc.multiplier <= 200

\* parseFloat((1.1 + Math.random() * 0.4).toFixed(2)), in hundredths
Multipliers == {150}

ManualLegs1 == << Leg(FN1, VIDP, VABB, A320, H(2)), Leg(FN2, VABB, VIDP, A320, H(3)) >>

\* a second leg flown on an A321 (Skyline Observer)
ManualLegs2 == << Leg(FN1, VIDP, VABB, A320, H(2)), Leg(FN2, VABB, VIDP, A321, H(3)) >>

\* a single leg of 11 h
ManualLegs3 == << Leg(FN3, VIDP, VOBL, A320, H(11)) >>

ManualRosterInputs ==
    { [hub |-> vidp, legs |-> ManualLegs1, totalFlightTime |-> 0],
      [hub |-> VIDP, legs |-> ManualLegs2, totalFlightTime |-> 0],
      [hub |-> VIDP, legs |-> ManualLegs3, totalFlightTime |-> 0],
      [hub |-> VIDP, legs |-> << >>, totalFlightTime |-> 0] }

\* POST /api/rosters
createRoster(body, randomMultiplier) ==
    IF Len(body.hub) = 0 \/ Len(body.legs) = 0
    THEN [resp |-> Response("createRoster", 0, 400, "Name, hub and at least one leg are required."),
          rosters |-> rosters, nextRoster |-> nextRoster]
    ELSE LET computedTFT ==
                 IF body.totalFlightTime > 0
                 THEN body.totalFlightTime
                 ELSE SumFlightTime(body.legs)
             newRoster ==
                 [hub |-> toUpperCase(body.hub),
                  legs |-> [i \in DOMAIN body.legs |-> StoredLeg(body.legs[i])],
                  totalFlightTime |-> computedTFT,
                  multiplier |-> randomMultiplier,
                  isAvailable |-> TRUE,
                  isGenerated |-> FALSE]
         IN  IF RosterValid(newRoster)
             THEN [resp |-> ResponseInfo("createRoster", 0, 201, "created", <<nextRoster>>),
                   rosters |-> (nextRoster :> newRoster) @@ rosters,
                   nextRoster |-> nextRoster + 1]
             ELSE [resp |-> Response("createRoster", 0, 500, "Server error while creating roster."),
                   rosters |-> rosters, nextRoster |-> nextRoster]

CreateRoster ==
    /\ nextRoster <= MaxRosterId
    /\ \E body \in ManualRosterInputs, m \in Multipliers :
          /\ rosters' = createRoster(body, m).rosters
          /\ nextRoster' = createRoster(body, m).nextRoster
    /\ UNCHANGED <<now, users, pireps, req>>

\* DELETE /api/rosters/:rosterId
deleteRoster(rosterId) ==
    IF rosterId \in DOMAIN rosters
    THEN [resp |-> Response("deleteRoster", 0, 200, "Roster deleted successfully."),
          rosters |-> [id \in DOMAIN rosters \ {rosterId} |-> rosters[id]]]
    ELSE [resp |-> Response("deleteRoster", 0, 404, "Roster not found."),
          rosters |-> rosters]

DeleteRoster ==
    /\ \E rosterId \in 1..(nextRoster - 1) : rosters' = deleteRoster(rosterId).rosters
    /\ UNCHANGED <<now, users, nextRoster, pireps, req>>

\* a leg as the ingestion loop returns it (lines 607-609)
SheetLeg(fn, dep, arr, ac, ft, rank, operator) ==
    [flightNumber |-> fn, departure |-> dep, arrival |-> arr, aircraft |-> ac,
     flightTime |-> ft, rankUnlock |-> rank, operator |-> operator]

\* allLegs as collected from the sheets
LegPool1 ==
    << SheetLeg(FN1, VIDP, VABB, A320, H(2), "IndGo Cadet", "IndGo Air Virtual"),
       SheetLeg(FN2, VABB, VOBL, A320, H(3), "IndGo Cadet", "IndGo Air Virtual"),
       SheetLeg(FN3, VIDP, VOBL, A320, H(9), "IndGo Cadet", "IndGo Air Virtual") >>

LegPools == { << >>, LegPool1 }

\* Object.keys(legsByDeparture): departures in order of first appearance
RECURSIVE DepartureAirports(_)
DepartureAirports(allLegs) ==
    IF allLegs = << >> THEN << >>
    ELSE LET keys == DepartureAirports(SubSeq(allLegs, 1, Len(allLegs) - 1))
             d == allLegs[Len(allLegs)].departure
         IN  IF \E i \in DOMAIN keys : keys[i] = d THEN keys ELSE Append(keys, d)

\* fault: the next leg picked among the unused legs of any airport
possibleNextLegs_anyDeparture(allLegs, currentAirport, usedFlightNumbers) ==
    {i \in DOMAIN allLegs : allLegs[i].flightNumber \notin usedFlightNumbers}

\* lines 656-658: the legs of legsByDeparture[currentAirport] whose flight
\* number is not used yet, as positions in allLegs
possibleNextLegs(allLegs, currentAirport, usedFlightNumbers) ==
    {i \in DOMAIN allLegs :
        /\ allLegs[i].departure = currentAirport
        /\ allLegs[i].flightNumber \notin usedFlightNumbers}

\* the inner loop of lines 655-668 from iteration j on: every rosterLegs
\* the random picks can end with
RECURSIVE BuildRosterLegs(_, _, _, _, _)
BuildRosterLegs(allLegs, currentAirport, rosterLegs, totalTime, j) ==
    IF j = 0 THEN {rosterLegs}
    ELSE LET usedFlightNumbers == {rosterLegs[k].flightNumber : k \in DOMAIN rosterLegs}
             possible == possibleNextLegs(allLegs, currentAirport, usedFlightNumbers)
         IN  IF possible = {} THEN {rosterLegs}
             ELSE UNION { LET nextLeg == allLegs[i]
                          IN  IF totalTime + nextLeg.flightTime > MAX_DAILY_FLIGHT_HOURS
                              THEN {rosterLegs}
                              ELSE BuildRosterLegs(allLegs, nextLeg.arrival,
                                                   Append(rosterLegs, nextLeg),
                                                   totalTime + nextLeg.flightTime, j - 1)
                        : i \in possible }

\* legCount = Math.floor(Math.random() * 3) + 2
CandidateRosterLegs(allLegs, departureAirport) ==
    UNION { BuildRosterLegs(allLegs, departureAirport, << >>, 0, legCount)
            : legCount \in 2..4 }

\* the outer loops of lines 643-685 from slot n on (slot = airport, i):
\* every generatedRosters list the run can produce
RECURSIVE GenerateFrom(_, _)
GenerateFrom(allLegs, n) ==
    LET keys == DepartureAirports(allLegs)
    IN  IF n > Len(keys) * rosterCountPerAirport THEN { << >> }
        ELSE LET departureAirport == keys[((n - 1) \div rosterCountPerAirport) + 1]
                 rest == GenerateFrom(allLegs, n + 1)
             IN  UNION { IF Len(rosterLegs) >= 2
                         THEN { << [hub |-> departureAirport,
                                    legs |-> rosterLegs,
                                    totalFlightTime |-> SumFlightTime(rosterLegs),
                                    multiplier |-> m,
                                    isGenerated |-> TRUE,
                                    isAvailable |-> TRUE] >> \o r
                                : m \in Multipliers, r \in rest }
                         ELSE rest
                       : rosterLegs \in CandidateRosterLegs(allLegs, departureAirport) }

GeneratedRosters == [allLegs \in LegPools |-> GenerateFrom(allLegs, 1)]

\* a generated roster as insertMany stores it
StoredRoster(r) ==
    [hub |-> toUpperCase(r.hub),
     legs |-> [i \in DOMAIN r.legs |-> StoredLeg(r.legs[i])],
     totalFlightTime |-> r.totalFlightTime,
     multiplier |-> r.multiplier,
     isAvailable |-> r.isAvailable,
     isGenerated |-> r.isGenerated]

\* fault: deleteMany without its filter
DeleteGenerated_all(store) == << >>

\* Roster.deleteMany({ isGenerated: true })
DeleteGenerated(store) ==
    [id \in {i \in DOMAIN store : ~store[i].isGenerated} |-> store[id]]

\* Roster.insertMany(docs): fresh _ids from firstId on
InsertMany(store, docs, firstId) ==
    [id \in DOMAIN store \cup {firstId + k - 1 : k \in DOMAIN docs} |->
        IF id \in DOMAIN store THEN store[id]
        ELSE StoredRoster(docs[id - firstId + 1])]

\* insertMany validates every document before it writes any
AllRostersValid(docs) == \A k \in DOMAIN docs : RosterValid(StoredRoster(docs[k]))

\* POST /api/rosters/generate -> generateRostersFromGoogleSheet, lines 623-693,
\* for the legs collected (allLegs) and the list the random picks produced
generateRosters(allLegs, generatedRosters) ==
    IF Len(allLegs) = 0
    THEN [resp |-> ResponseInfo("generate", 0, 201, "Roster generation complete.", <<0, 0>>),
          rosters |-> rosters, nextRoster |-> nextRoster]
    ELSE IF Len(generatedRosters) > 0
    THEN IF AllRostersValid(generatedRosters)
         THEN [resp |-> ResponseInfo("generate", 0, 201, "Roster generation complete.",
                                     <<Len(generatedRosters), Len(allLegs)>>),
               rosters |-> InsertMany(DeleteGenerated(rosters), generatedRosters, nextRoster),
               nextRoster |-> nextRoster + Len(generatedRosters)]
         ELSE [resp |-> Response("generate", 0, 500, "validation failed"),
               rosters |-> DeleteGenerated(rosters), nextRoster |-> nextRoster]
    ELSE [resp |-> ResponseInfo("generate", 0, 201, "Roster generation complete.",
                                <<0, Len(allLegs)>>),
          rosters |-> rosters, nextRoster |-> nextRoster]

GenerateRosters ==
    /\ \E allLegs \in LegPools :
          \E generatedRosters \in GeneratedRosters[allLegs] :
              /\ nextRoster + Len(generatedRosters) - 1 <= MaxRosterId
              /\ rosters' = generateRosters(allLegs, generatedRosters).rosters
              /\ nextRoster' = generateRosters(allLegs, generatedRosters).nextRoster
    /\ UNCHANGED <<now, users, pireps, req>>

(***************************************************************************)
(* Duty lifecycle (part_001).                                              *)
(***************************************************************************)
\* fault: the rest check with the boundary instant included
crewRestRequired_atBoundary(user, t) ==
    user.lastDutyOff # NONE /\ (t - user.lastDutyOff) <= MIN_REST_PERIOD

\* line 1300: user.lastDutyOff && (Date.now() - user.lastDutyOff) < MIN_REST_PERIOD
crewRestRequired(user, t) ==
    user.lastDutyOff # NONE /\ (t - user.lastDutyOff) < MIN_REST_PERIOD

\* fault: the quota check with the ceiling itself excluded
exceedsLimit_atLimit(hours, rosterTime, limit) == hours + rosterTime >= limit

\* lines 1311 and 1314: (hours + roster.totalFlightTime) > limit
exceedsLimit(hours, rosterTime, limit) == hours + rosterTime > limit

\* lines 1305-1310: the monthly counter of the loaded document is cleared
\* when the last reset is more than a month old
\* fault: the reset is applied when exactly one month has elapsed as well
resetMonthlyHours_atBoundary(user, t) ==
    IF user.lastHourReset <= t - OneMonth
    THEN [user EXCEPT !.monthlyFlightHours = 0, !.lastHourReset = t]
    ELSE user

resetMonthlyHours(user, t) ==
    IF user.lastHourReset < t - OneMonth
    THEN [user EXCEPT !.monthlyFlightHours = 0, !.lastHourReset = t]
    ELSE user

\* POST /api/duty/start after its two reads: the response, and the document
\* to save when the request is accepted
startDutyDecision(who, user, roster, rosterId, t) ==
    LET deny(code, msg, info) ==
            [resp |-> ResponseInfo("startDuty", who, code, msg, info),
             save |-> FALSE, doc |-> user]
        monthlyFlightHours == resetMonthlyHours(user, t).monthlyFlightHours
        lastHourReset == resetMonthlyHours(user, t).lastHourReset
    IN  IF roster = NULL
        THEN deny(404, "Selected roster not found.", << >>)
        ELSE IF user.dutyStatus = "ON_DUTY"
        THEN deny(400, "You are already on duty.", << >>)
        ELSE IF crewRestRequired(user, t)
        THEN deny(403, "Crew rest required.",
                  << (MIN_REST_PERIOD - (t - user.lastDutyOff)) * 60 >>)
        ELSE IF exceedsLimit(monthlyFlightHours, roster.totalFlightTime,
                             MAX_MONTHLY_FLIGHT_HOURS)
        THEN deny(403, "This duty would exceed your monthly limit.", << >>)
        ELSE IF exceedsLimit(user.dailyFlightHours, roster.totalFlightTime,
                             MAX_DAILY_FLIGHT_HOURS)
        THEN deny(403, "This duty would exceed your daily flight limit.", << >>)
        ELSE IF \E k \in DOMAIN roster.legs :
                    ~canFlyLeg(user.rank, getLegRequiredRank(roster.legs[k]))
        THEN deny(403, "This roster includes a leg above your rank.", << >>)
        ELSE [resp |-> ResponseInfo("startDuty", who, 200, "You are now on duty.", <<rosterId>>),
              save |-> TRUE,
              doc |-> [user EXCEPT !.monthlyFlightHours = monthlyFlightHours,
                                   !.lastHourReset = lastHourReset,
                                   !.dutyStatus = "ON_DUTY",
                                   !.currentRoster = rosterId,
                                   !.lastDutyStart = t]]

\* fault: the document is saved when the request is denied as well
startDuty_savesOnDenial(p, rosterId) ==
    LET d == startDutyDecision(p, users[p], FindRoster(rosterId), rosterId, now)
    IN  [resp |-> d.resp,
         users |-> [users EXCEPT ![p] =
                       SaveUser(users[p], users[p],
                                IF d.save THEN d.doc
                                ELSE resetMonthlyHours(users[p], now))]]

startDuty(p, rosterId) ==
    LET d == startDutyDecision(p, users[p], FindRoster(rosterId), rosterId, now)
    IN  [resp |-> d.resp,
         users |-> IF d.save
                   THEN [users EXCEPT ![p] = SaveUser(users[p], users[p], d.doc)]
                   ELSE users]

StartDuty ==
    /\ \E p \in Pilots, rosterId \in 1..MaxRosterId :
          users' = startDuty(p, rosterId).users
    /\ UNCHANGED <<now, rosters, nextRoster, pireps, req>>

\* Pirep.countDocuments({ pilot, 'rosterLeg.rosterId', status: { $in: [...] } })
CountFiled(p, rosterId) ==
    Cardinality({i \in DOMAIN pireps :
                    /\ pireps[i].pilot = p
                    /\ pireps[i].rosterLeg # NULL
                    /\ pireps[i].rosterLeg.rosterId = rosterId
                    /\ pireps[i].status \in {"APPROVED", "PENDING"}})

\* POST /api/duty/end after its reads; roster is the populated currentRoster
endDutyDecision(who, user, roster, filedPireps, t) ==
    LET deny(msg, info) ==
            [resp |-> ResponseInfo("endDuty", who, 400, msg, info),
             save |-> FALSE, doc |-> user]
    IN  IF user.dutyStatus # "ON_DUTY"
        THEN deny("You are not currently on duty.", << >>)
        ELSE IF roster = NULL
        THEN deny("No roster assigned to end duty.", << >>)
        ELSE IF filedPireps < Len(roster.legs)
        THEN deny("You must file PIREPs for all roster legs.",
                  <<filedPireps, Len(roster.legs)>>)
        ELSE [resp |-> Response("endDuty", who, 200, "Duty day completed successfully!"),
              save |-> TRUE,
              doc |-> [user EXCEPT
                         !.lastDutyAirport =
                             IF Len(roster.legs) > 0
                             THEN roster.legs[Len(roster.legs)].arrival
                             ELSE user.lastDutyAirport,
                         !.dutyStatus = "ON_REST",
                         !.currentRoster = NONE,
                         !.lastDutyOff = t,
                         !.lastDutyStart = NONE,
                         !.dailyFlightHours = 0]]

\* populate('currentRoster'): the referenced document, null when the
\* reference is null or dangling
Populate(user) ==
    IF user.currentRoster = NONE THEN NULL ELSE FindRoster(user.currentRoster)

endDuty(p) ==
    LET user == users[p]
        roster == Populate(user)
        filedPireps == IF user.dutyStatus = "ON_DUTY" /\ roster # NULL
                       THEN CountFiled(p, user.currentRoster) ELSE 0
        d == endDutyDecision(p, user, roster, filedPireps, now)
    IN  [resp |-> d.resp,
         users |-> IF d.save
                   THEN [users EXCEPT ![p] = SaveUser(users[p], user, d.doc)]
                   ELSE users]

EndDuty ==
    /\ \E p \in Pilots : users' = endDuty(p).users
    /\ UNCHANGED <<now, rosters, nextRoster, pireps, req>>

(***************************************************************************)
(* PIREP filing and review (part_001).                                     *)
(***************************************************************************)
\* no response yet: the handler goes on
NoResponse == Response("", 0, 0, "")

\* PirepSchema validation as run by save(): rankUnlock and operator are
\* required paths
PirepValid(data) ==
    /\ Len(data.flightNumber) > 0
    /\ Len(data.departure) > 0
    /\ Len(data.arrival) > 0
    /\ Len(data.aircraft) > 0
    /\ data.flightTime >= 10
    /\ data.rankUnlock # ""
    /\ data.operator # ""

\* the document new Pirep(data) stores: departure and arrival upper-cased
StoredPirep(data) ==
    [data EXCEPT !.departure = toUpperCase(data.departure),
                 !.arrival = toUpperCase(data.arrival)]

\* roster.legs.find(...): the index of the first leg matching the flight
\* number, departure and arrival ignoring case, 0 when there is none
FindLeg(roster, body) ==
    LET matching ==
            {k \in DOMAIN roster.legs :
                /\ toUpperCase(roster.legs[k].flightNumber) = toUpperCase(body.flightNumber)
                /\ toUpperCase(roster.legs[k].departure) = toUpperCase(body.departure)
                /\ toUpperCase(roster.legs[k].arrival) = toUpperCase(body.arrival)}
    IN  IF matching = {} THEN 0
        ELSE CHOOSE k \in matching : \A j \in matching : k <= j

\* Pirep.findOne({ pilot, 'rosterLeg.rosterId', 'rosterLeg.flightNumber' }):
\* the flight number is compared as the string sent
ExistingPirep(store, p, rosterId, flightNumber) ==
    \E i \in DOMAIN store :
        /\ store[i].pilot = p
        /\ store[i].rosterLeg # NULL
        /\ store[i].rosterLeg.rosterId = rosterId
        /\ store[i].rosterLeg.flightNumber = flightNumber

\* newPirepData of lines 935-941, with the schema defaults
newPirepData(p, body) ==
    [pilot |-> p,
     flightNumber |-> body.flightNumber,
     departure |-> body.departure,
     arrival |-> body.arrival,
     aircraft |-> body.aircraft,
     flightTime |-> body.flightTime,
     rankUnlock |-> "",
     operator |-> "",
     status |-> "PENDING",
     reviewedBy |-> "",
     rejectionReason |-> "",
     verificationImageUrl |-> "s3",
     isMultiplierEligible |-> FALSE,
     rosterLeg |-> NULL]

\* lines 924-930: the checks made before any read
fileReportRequestError(p, body) ==
    IF ~body.file
    THEN Response("fileReport", p, 400, "A verification image of the flight is required.")
    ELSE IF \/ Len(body.flightNumber) = 0 \/ Len(body.departure) = 0
            \/ Len(body.arrival) = 0 \/ Len(body.aircraft) = 0
            \/ body.flightTime = NONE \/ body.flightTime = 0
    THEN Response("fileReport", p, 400, "Please fill out all required flight details.")
    ELSE NoResponse

\* lines 946-964, on duty, with the populated roster
fileReportOnDutyError(p, pilot, roster, body) ==
    IF roster = NULL
    THEN Response("fileReport", p, 500, "Server error while filing flight report.")
    ELSE IF FindLeg(roster, body) = 0
    THEN Response("fileReport", p, 400, "This flight does not match any leg in your assigned roster.")
    ELSE IF ~canFlyLeg(pilot.rank, getLegRequiredRank(roster.legs[FindLeg(roster, body)]))
    THEN Response("fileReport", p, 403, "This roster leg requires a rank above yours.")
    ELSE NoResponse

\* lines 973-979
fileReportOnDutyData(p, pilot, roster, body) ==
    [newPirepData(p, body) EXCEPT
        !.rosterLeg = [rosterId |-> pilot.currentRoster,
                       flightNumber |-> body.flightNumber],
        !.isMultiplierEligible =
            toUpperCase(roster.legs[Len(roster.legs)].flightNumber)
                = toUpperCase(body.flightNumber)]

\* fault: an off-roster report accepted whatever the aircraft
fileReportAdHocError_noRankCheck(p, pilot, body) == NoResponse

\* lines 982-987, off roster
fileReportAdHocError(p, pilot, body) ==
    IF ~canFlyLeg(pilot.rank, deduceRankFromAircraft(body.aircraft))
    THEN Response("fileReport", p, 403, "This aircraft/route requires a rank above yours.")
    ELSE NoResponse

\* lines 989-990
fileReportAdHocData(p, body) ==
    [newPirepData(p, body) EXCEPT
        !.rankUnlock = deduceRankFromAircraft(body.aircraft),
        !.operator = "IndGo Air Virtual"]

\* lines 993-995: new Pirep(data).save() and the response
fileReportSave(store, p, data) ==
    IF PirepValid(data)
    THEN [resp |-> ResponseInfo("fileReport", p, 201,
                                "Flight report submitted successfully and is pending review.",
                                <<Len(store) + 1>>),
          pireps |-> Append(store, StoredPirep(data))]
    ELSE [resp |-> Response("fileReport", p, 500, "Server error while filing flight report."),
          pireps |-> store]

\* POST /api/pireps
fileReport(p, body) ==
    LET pilot == users[p]
        roster == Populate(pilot)
        deny(r) == [resp |-> r, pireps |-> pireps]
    IN  IF fileReportRequestError(p, body) # NoResponse
        THEN deny(fileReportRequestError(p, body))
        ELSE IF pilot.dutyStatus = "ON_DUTY"
        THEN IF pilot.currentRoster = NONE
             THEN deny(Response("fileReport", p, 400, "You are on duty but have no assigned roster."))
             ELSE IF fileReportOnDutyError(p, pilot, roster, body) # NoResponse
             THEN deny(fileReportOnDutyError(p, pilot, roster, body))
             ELSE IF ExistingPirep(pireps, p, pilot.currentRoster, body.flightNumber)
             THEN deny(Response("fileReport", p, 400, "You have already filed a PIREP for this roster leg."))
             ELSE fileReportSave(pireps, p, fileReportOnDutyData(p, pilot, roster, body))
        ELSE IF fileReportAdHocError(p, pilot, body) # NoResponse
        THEN deny(fileReportAdHocError(p, pilot, body))
        ELSE fileReportSave(pireps, p, fileReportAdHocData(p, body))

Body(fn, dep, arr, ac, ft, file) ==
    [flightNumber |-> fn, departure |-> dep, arrival |-> arr, aircraft |-> ac,
     flightTime |-> ft, file |-> file]

ReportBodies ==
    { Body(FN1, VIDP, VABB, A320, H(2), TRUE),
      Body(fn1, vidp, VABB, A320, H(2), TRUE),
      Body(FN2, VABB, VIDP, A321, H(3), TRUE),
      Body(FN2, VABB, VIDP, A320, H(50), TRUE),
      Body(FN3, VIDP, VOBL, C172, H(1), TRUE),
      Body(FN1, VIDP, VABB, A320, H(2), FALSE) }

FileReport ==
    /\ Len(pireps) < MaxPireps
    /\ \E p \in Pilots, body \in ReportBodies : pireps' = fileReport(p, body).pireps
    /\ UNCHANGED <<now, users, rosters, nextRoster, req>>

\* Pirep.findById(id): the document, or null
FindPirep(id) == IF id \in DOMAIN pireps THEN pireps[id] ELSE NULL

\* pirep.save(): the assigned paths are $set on the stored document
SavePirep(stored, loaded, doc) ==
    [f \in DOMAIN stored |-> IF doc[f] # loaded[f] THEN doc[f] ELSE stored[f]]

\* fault: the approval guard without the status check
approveGuard_noStatusCheck(pirep) ==
    IF pirep = NULL
    THEN Response("approve", 0, 404, "PIREP not found.")
    ELSE NoResponse

\* lines 1027-1028
approveGuard(pirep) ==
    IF pirep = NULL
    THEN Response("approve", 0, 404, "PIREP not found.")
    ELSE IF pirep.status # "PENDING"
    THEN Response("approve", 0, 400, "This PIREP has already been reviewed.")
    ELSE NoResponse

\* line 1040
approveNeedsRoster(pirep) ==
    pirep.isMultiplierEligible /\ pirep.rosterLeg # NULL

\* fault: the claimed hours awarded whatever the roster's multiplier
hoursToAdd_noMultiplier(pirep, roster) == pirep.flightTime

\* lines 1037-1047; roster is the roster read at line 1041, NULL when it
\* was not read or not found
hoursToAdd(pirep, roster) ==
    IF approveNeedsRoster(pirep) /\ roster # NULL /\ roster.multiplier > 100
    THEN (pirep.flightTime * roster.multiplier) \div 100
    ELSE pirep.flightTime

\* fault: the rank taken from the hours of the report instead of the total
approvePilotDoc_rankFromReport(pilot, pirep, roster) ==
    [pilot EXCEPT
        !.flightHours = @ + hoursToAdd(pirep, roster),
        !.monthlyFlightHours = @ + hoursToAdd(pirep, roster),
        !.dailyFlightHours = @ + hoursToAdd(pirep, roster),
        !.lastKnownAirport = pirep.arrival,
        !.rank = checkAndApplyRankUpdate(
                     [pilot EXCEPT !.flightHours = hoursToAdd(pirep, roster)]).rank]

\* lines 1049-1054
approvePilotDoc(pilot, pirep, roster) ==
    LET credited ==
            [pilot EXCEPT
                !.flightHours = @ + hoursToAdd(pirep, roster),
                !.monthlyFlightHours = @ + hoursToAdd(pirep, roster),
                !.dailyFlightHours = @ + hoursToAdd(pirep, roster),
                !.lastKnownAirport = pirep.arrival]
    IN  [credited EXCEPT !.rank = checkAndApplyRankUpdate(credited).rank]

\* lines 1056-1059
approvePirepDoc(pirep, reviewer) ==
    [pirep EXCEPT !.status = "APPROVED",
                  !.reviewedBy = reviewer,
                  !.verificationImageUrl = ""]

\* PUT /api/pireps/:pirepId/approve
approveReport(id, reviewer) ==
    LET pirep == FindPirep(id)
    IN  IF approveGuard(pirep) # NoResponse
        THEN [resp |-> approveGuard(pirep), users |-> users, pireps |-> pireps]
        ELSE LET pilot == users[pirep.pilot]
                 roster == IF approveNeedsRoster(pirep)
                           THEN FindRoster(pirep.rosterLeg.rosterId) ELSE NULL
                 pilotDoc == approvePilotDoc(pilot, pirep, roster)
             IN  [resp |-> ResponseInfo("approve", 0, 200, "PIREP approved.",
                                        <<pilotDoc.flightHours>>),
                  users |-> [users EXCEPT ![pirep.pilot] = SaveUser(@, pilot, pilotDoc)],
                  pireps |-> [pireps EXCEPT ![id] =
                                 SavePirep(@, pirep, approvePirepDoc(pirep, reviewer))]]

ApproveReport ==
    /\ \E id \in 1..MaxPireps, reviewer \in Staff :
          /\ users' = approveReport(id, reviewer).users
          /\ pireps' = approveReport(id, reviewer).pireps
    /\ UNCHANGED <<now, rosters, nextRoster, req>>

\* lines 1101-1105
rejectGuard(pirep, reason) ==
    IF reason = ""
    THEN Response("reject", 0, 400, "A reason for rejection is required.")
    ELSE IF pirep = NULL
    THEN Response("reject", 0, 404, "PIREP not found.")
    ELSE IF pirep.status # "PENDING"
    THEN Response("reject", 0, 400, "This PIREP was already reviewed.")
    ELSE NoResponse

\* lines 1111-1115
rejectPirepDoc(pirep, reviewer, reason) ==
    [pirep EXCEPT !.status = "REJECTED",
                  !.rejectionReason = reason,
                  !.reviewedBy = reviewer,
                  !.verificationImageUrl = ""]

\* PUT /api/pireps/:pirepId/reject
rejectReport(id, reviewer, reason) ==
    LET pirep == FindPirep(id)
    IN  IF rejectGuard(pirep, reason) # NoResponse
        THEN [resp |-> rejectGuard(pirep, reason), pireps |-> pireps]
        ELSE [resp |-> Response("reject", 0, 200, "PIREP has been successfully rejected."),
              pireps |-> [pireps EXCEPT ![id] =
                             SavePirep(@, pirep, rejectPirepDoc(pirep, reviewer, reason))]]

Reasons == {"", "wrong route"}

RejectReport ==
    /\ \E id \in 1..MaxPireps, reviewer \in Staff, reason \in Reasons :
          pireps' = rejectReport(id, reviewer, reason).pireps
    /\ UNCHANGED <<now, users, rosters, nextRoster, req>>

Next ==
    \/ Tick
    \/ CreateRoster
    \/ DeleteRoster
    \/ GenerateRosters
    \/ StartDuty
    \/ FileReport
    \/ EndDuty
    \/ ApproveReport
    \/ RejectReport

Spec == Init /\ [][Next]_vars

(***************************************************************************)
(* The revision src/server.js: no rank gating, no multiplier, no           *)
(* verification image; PirepSchema without rankUnlock and operator.        *)
(***************************************************************************)
pilotRanks_srv ==
    << "Cadet", "Second Officer", "First Officer", "Senior First Officer",
       "Captain", "Senior Captain" >>

rankThresholds_srv == << H(0), H(10), H(50), H(150), H(400), H(1000) >>

checkAndApplyRankUpdate_srv(pilot) ==
    LET reached == {i \in DOMAIN pilotRanks_srv :
                       pilot.flightHours >= rankThresholds_srv[i]}
        newRank == IF reached = {} THEN pilot.rank
                   ELSE pilotRanks_srv[CHOOSE i \in reached : \A j \in reached : j <= i]
    IN  [promoted |-> newRank # pilot.rank, rank |-> newRank]

NewUser_srv == [NewUser EXCEPT !.rank = "Cadet"]

RosterValid_srv(doc) ==
    /\ Len(doc.hub) > 0
    /\ \A i \in DOMAIN doc.legs :
          /\ Len(doc.legs[i].flightNumber) > 0
          /\ Len(doc.legs[i].departure) > 0
          /\ Len(doc.legs[i].arrival) > 0
          /\ Len(doc.legs[i].aircraft) > 0
          /\ doc.legs[i].flightTime >= 10
    /\ doc.totalFlightTime >= 0

ManualRosterInputs_srv ==
    { [hub |-> vidp, legs |-> ManualLegs1, totalFlightTime |-> H(5)],
      [hub |-> VIDP, legs |-> ManualLegs1, totalFlightTime |-> 0] }

\* POST /api/rosters
createRoster_srv(body) ==
    IF Len(body.hub) = 0 \/ Len(body.legs) = 0 \/ body.totalFlightTime = 0
    THEN [resp |-> Response("createRoster", 0, 400, "All roster fields are required."),
          rosters |-> rosters, nextRoster |-> nextRoster]
    ELSE LET newRoster ==
                 [hub |-> toUpperCase(body.hub),
                  legs |-> [i \in DOMAIN body.legs |-> StoredLeg(body.legs[i])],
                  totalFlightTime |-> body.totalFlightTime,
                  isAvailable |-> TRUE,
                  isGenerated |-> FALSE]
         IN  IF RosterValid_srv(newRoster)
             THEN [resp |-> ResponseInfo("createRoster", 0, 201, "created", <<nextRoster>>),
                   rosters |-> (nextRoster :> newRoster) @@ rosters,
                   nextRoster |-> nextRoster + 1]
             ELSE [resp |-> Response("createRoster", 0, 500, "Server error while creating roster."),
                   rosters |-> rosters, nextRoster |-> nextRoster]

CreateRoster_srv ==
    /\ nextRoster <= MaxRosterId
    /\ \E body \in ManualRosterInputs_srv :
          /\ rosters' = createRoster_srv(body).rosters
          /\ nextRoster' = createRoster_srv(body).nextRoster
    /\ UNCHANGED <<now, users, pireps, req>>

\* DELETE /api/rosters/:rosterId
deleteRoster_srv(rosterId) ==
    IF rosterId \in DOMAIN rosters
    THEN [resp |-> Response("deleteRoster", 0, 200, "Roster deleted successfully."),
          rosters |-> [id \in DOMAIN rosters \ {rosterId} |-> rosters[id]]]
    ELSE [resp |-> Response("deleteRoster", 0, 404, "Roster not found."),
          rosters |-> rosters]

DeleteRoster_srv ==
    /\ \E rosterId \in 1..(nextRoster - 1) : rosters' = deleteRoster_srv(rosterId).rosters
    /\ UNCHANGED <<now, users, nextRoster, pireps, req>>

\* POST /api/duty/start
startDuty_srv(p, rosterId) ==
    LET user == users[p]
        roster == FindRoster(rosterId)
        deny(code, msg) ==
            [resp |-> Response("startDuty", p, code, msg), users |-> users]
        reset == user.lastHourReset < now - OneMonth
        monthlyFlightHours == IF reset THEN 0 ELSE user.monthlyFlightHours
        lastHourReset == IF reset THEN now ELSE user.lastHourReset
    IN  IF roster = NULL
        THEN deny(404, "Selected roster not found.")
        ELSE IF user.dutyStatus = "ON_DUTY"
        THEN deny(400, "You are already on duty.")
        ELSE IF crewRestRequired(user, now)
        THEN deny(403, "Crew rest required.")
        ELSE IF exceedsLimit(monthlyFlightHours, roster.totalFlightTime,
                             MAX_MONTHLY_FLIGHT_HOURS)
        THEN deny(403, "This duty would exceed your monthly limit.")
        ELSE IF exceedsLimit(user.dailyFlightHours, roster.totalFlightTime,
                             MAX_DAILY_FLIGHT_HOURS)
        THEN deny(403, "This duty would exceed your daily flight limit.")
        ELSE [resp |-> ResponseInfo("startDuty", p, 200, "You are now on duty.", <<rosterId>>),
              users |-> [users EXCEPT ![p] =
                            SaveUser(@, user,
                                     [user EXCEPT !.monthlyFlightHours = monthlyFlightHours,
                                                  !.lastHourReset = lastHourReset,
                                                  !.dutyStatus = "ON_DUTY",
                                                  !.currentRoster = rosterId,
                                                  !.lastDutyStart = now])]]

StartDuty_srv ==
    /\ \E p \in Pilots, rosterId \in 1..MaxRosterId :
          users' = startDuty_srv(p, rosterId).users
    /\ UNCHANGED <<now, rosters, nextRoster, pireps, req>>

\* fault: the count of linked reports without the status filter
FiledPireps_anyStatus(p, rosterId) ==
    {i \in DOMAIN pireps :
        /\ pireps[i].pilot = p
        /\ pireps[i].rosterLeg # NULL
        /\ pireps[i].rosterLeg.rosterId = rosterId}

\* Pirep.find({ pilot, 'rosterLeg.rosterId', status: { $in: [...] } })
FiledPireps_srv(p, rosterId) ==
    {i \in DOMAIN pireps :
        /\ pireps[i].pilot = p
        /\ pireps[i].rosterLeg # NULL
        /\ pireps[i].rosterLeg.rosterId = rosterId
        /\ pireps[i].status \in {"APPROVED", "PENDING"}}

\* fault: duty ended without clearing the roster reference
endDutyDoc_keepsRoster(user, roster, t) ==
    [user EXCEPT !.lastDutyAirport = roster.legs[Len(roster.legs)].arrival,
                 !.dutyStatus = "ON_REST",
                 !.lastDutyOff = t,
                 !.lastDutyStart = NONE,
                 !.dailyFlightHours = 0]

\* fault: the cumulative hours cleared along with the daily hours
endDutyDoc_resetsHours(user, roster, t) ==
    [user EXCEPT !.lastDutyAirport = roster.legs[Len(roster.legs)].arrival,
                 !.dutyStatus = "ON_REST",
                 !.currentRoster = NONE,
                 !.lastDutyOff = t,
                 !.lastDutyStart = NONE,
                 !.dailyFlightHours = 0,
                 !.flightHours = 0]

\* fault: the airport taken from the first leg
endDutyDoc_firstLeg(user, roster, t) ==
    [user EXCEPT !.lastDutyAirport = roster.legs[1].arrival,
                 !.dutyStatus = "ON_REST",
                 !.currentRoster = NONE,
                 !.lastDutyOff = t,
                 !.lastDutyStart = NONE,
                 !.dailyFlightHours = 0]

\* server.js lines 1139-1150: the assignments of an accepted end of duty
endDutyDoc_srv(user, roster, t) ==
    [user EXCEPT !.lastDutyAirport =
                     IF Len(roster.legs) > 0
                     THEN roster.legs[Len(roster.legs)].arrival
                     ELSE user.lastDutyAirport,
                 !.dutyStatus = "ON_REST",
                 !.currentRoster = NONE,
                 !.lastDutyOff = t,
                 !.lastDutyStart = NONE,
                 !.dailyFlightHours = 0]

\* POST /api/duty/end
endDuty_srv(p) ==
    LET user == users[p]
        roster == Populate(user)
        filedPireps == FiledPireps_srv(p, user.currentRoster)
        deny(msg, info) ==
            [resp |-> ResponseInfo("endDuty", p, 400, msg, info), users |-> users]
    IN  IF user.dutyStatus # "ON_DUTY"
        THEN deny("You are not currently on duty.", << >>)
        ELSE IF roster = NULL
        THEN deny("No roster assigned to end duty.", << >>)
        ELSE IF Cardinality(filedPireps) < Len(roster.legs)
        THEN deny("You must file PIREPs for all roster legs.",
                  <<Cardinality(filedPireps), Len(roster.legs)>>)
        ELSE [resp |-> Response("endDuty", p, 200, "Duty day completed successfully!"),
              users |-> [users EXCEPT ![p] =
                            SaveUser(@, user, endDutyDoc_srv(user, roster, now))]]

EndDuty_srv ==
    /\ \E p \in Pilots : users' = endDuty_srv(p).users
    /\ UNCHANGED <<now, rosters, nextRoster, pireps, req>>

\* PirepSchema validation (server.js, lines 164-182)
PirepValid_srv(data) ==
    /\ Len(data.flightNumber) > 0
    /\ Len(data.departure) > 0
    /\ Len(data.arrival) > 0
    /\ Len(data.aircraft) > 0
    /\ data.flightTime >= 10

newPirepData_srv(p, body) ==
    [pilot |-> p,
     flightNumber |-> body.flightNumber,
     departure |-> body.departure,
     arrival |-> body.arrival,
     aircraft |-> body.aircraft,
     flightTime |-> body.flightTime,
     status |-> "PENDING",
     reviewedBy |-> "",
     rejectionReason |-> "",
     rosterLeg |-> NULL]

\* POST /api/pireps
fileReport_srv(p, body) ==
    LET pilot == users[p]
        roster == Populate(pilot)
        deny(code, msg) ==
            [resp |-> Response("fileReport", p, code, msg), pireps |-> pireps]
        save(data) ==
            IF PirepValid_srv(data)
            THEN [resp |-> ResponseInfo("fileReport", p, 201,
                                        "Flight report submitted successfully and is pending review.",
                                        <<Len(pireps) + 1>>),
                  pireps |-> Append(pireps, StoredPirep(data))]
            ELSE deny(500, "Server error while filing flight report.")
    IN  IF \/ Len(body.flightNumber) = 0 \/ Len(body.departure) = 0
           \/ Len(body.arrival) = 0 \/ Len(body.aircraft) = 0
           \/ body.flightTime = NONE \/ body.flightTime = 0
        THEN deny(400, "Please fill out all required flight details.")
        ELSE IF pilot.dutyStatus = "ON_DUTY"
        THEN IF pilot.currentRoster = NONE
             THEN deny(400, "You are on duty but have no assigned roster.")
             ELSE IF roster = NULL
             THEN deny(500, "Server error while filing flight report.")
             ELSE IF FindLeg(roster, body) = 0
             THEN deny(400, "This flight does not match any leg in your assigned roster.")
             ELSE IF ExistingPirep(pireps, p, pilot.currentRoster, body.flightNumber)
             THEN deny(400, "You have already filed a PIREP for this roster leg.")
             ELSE save([newPirepData_srv(p, body) EXCEPT
                           !.rosterLeg = [rosterId |-> pilot.currentRoster,
                                          flightNumber |-> body.flightNumber]])
        ELSE save(newPirepData_srv(p, body))

ReportBodies_srv ==
    { Body(FN1, VIDP, VABB, A320, H(2), TRUE),
      Body(fn1, vidp, VABB, A320, H(2), TRUE),
      Body(FN2, VABB, VIDP, A320, H(3), TRUE),
      Body(FN2, VABB, VIDP, A320, H(95), TRUE),
      Body(FN3, VIDP, VOBL, A320, NONE, TRUE) }

FileReport_srv ==
    /\ Len(pireps) < MaxPireps
    /\ \E p \in Pilots, body \in ReportBodies_srv : pireps' = fileReport_srv(p, body).pireps
    /\ UNCHANGED <<now, users, rosters, nextRoster, req>>

\* PUT /api/pireps/:pirepId/approve
approveReport_srv(id, reviewer) ==
    LET pirep == FindPirep(id)
        deny(code, msg) ==
            [resp |-> Response("approve", 0, code, msg), users |-> users, pireps |-> pireps]
    IN  IF pirep = NULL
        THEN deny(404, "PIREP not found.")
        ELSE IF pirep.status # "PENDING"
        THEN deny(400, "This PIREP has already been reviewed.")
        ELSE LET pilot == users[pirep.pilot]
                 credited ==
                     [pilot EXCEPT
                         !.flightHours = @ + pirep.flightTime,
                         !.monthlyFlightHours = @ + pirep.flightTime,
                         !.dailyFlightHours = @ + pirep.flightTime,
                         !.lastKnownAirport = pirep.arrival]
                 pilotDoc ==
                     [credited EXCEPT !.rank = checkAndApplyRankUpdate_srv(credited).rank]
             IN  [resp |-> ResponseInfo("approve", 0, 200, "PIREP approved.",
                                        <<pilotDoc.flightHours>>),
                  users |-> [users EXCEPT ![pirep.pilot] = SaveUser(@, pilot, pilotDoc)],
                  pireps |-> [pireps EXCEPT ![id] =
                                 SavePirep(@, pirep,
                                           [pirep EXCEPT !.status = "APPROVED",
                                                         !.reviewedBy = reviewer])]]

ApproveReport_srv ==
    /\ \E id \in 1..MaxPireps, reviewer \in Staff :
          /\ users' = approveReport_srv(id, reviewer).users
          /\ pireps' = approveReport_srv(id, reviewer).pireps
    /\ UNCHANGED <<now, rosters, nextRoster, req>>

\* PUT /api/pireps/:pirepId/reject: findByIdAndUpdate writes the rejection
\* and returns the document as it was ({ new: false }); the status is
\* examined after the write
rejectReport_srv(id, reviewer, reason) ==
    LET pirep == FindPirep(id)
        updated == IF pirep = NULL THEN pireps
                   ELSE [pireps EXCEPT ![id] =
                            [@ EXCEPT !.status = "REJECTED",
                                      !.rejectionReason = reason,
                                      !.reviewedBy = reviewer]]
    IN  IF reason = ""
        THEN [resp |-> Response("reject", 0, 400, "A reason for rejection is required."),
              pireps |-> pireps]
        ELSE IF pirep = NULL
        THEN [resp |-> Response("reject", 0, 404, "PIREP not found."), pireps |-> updated]
        ELSE IF pirep.status # "PENDING"
        THEN [resp |-> Response("reject", 0, 400, "This PIREP was already reviewed."),
              pireps |-> updated]
        ELSE [resp |-> Response("reject", 0, 200, "PIREP has been successfully rejected."),
              pireps |-> updated]

RejectReport_srv ==
    /\ \E id \in 1..MaxPireps, reviewer \in Staff, reason \in Reasons :
          pireps' = rejectReport_srv(id, reviewer, reason).pireps
    /\ UNCHANGED <<now, users, rosters, nextRoster, req>>

InitSrv ==
    /\ now = Instants[1]
    /\ users = [p \in Pilots |-> NewUser_srv]
    /\ rosters = << >>
    /\ nextRoster = 1
    /\ pireps = << >>
    /\ req = [i \in Slots |-> Idle]

NextSrv ==
    \/ Tick
    \/ CreateRoster_srv
    \/ DeleteRoster_srv
    \/ StartDuty_srv
    \/ FileReport_srv
    \/ EndDuty_srv
    \/ ApproveReport_srv
    \/ RejectReport_srv

SpecSrv == InitSrv /\ [][NextSrv]_vars

(***************************************************************************)
(* part_001 with interleaved requests.  A handler gives way at each await:  *)
(* every database operation is one step, and what a handler has read lives *)
(* in its request record until it responds.  Two requests can be in flight. *)
(* A request that has responded (pc = "done") is retired before the next    *)
(* one begins, so two requests found in the slots together have overlapped. *)
(* A request takes the first free slot.                                     *)
(***************************************************************************)
Other(i) == CHOOSE j \in Slots : j # i

CanBegin(i) ==
    /\ req[i] = Idle
    /\ req[Other(i)].pc # "done"
    /\ \A j \in Slots : j < i => req[j] # Idle

\* the reports sent while requests interleave
ConcBodies ==
    { Body(FN1, VIDP, VABB, A320, H(2), TRUE),
      Body(FN3, VIDP, VOBL, C172, H(1), TRUE) }

InFlight(i, op, pc) == req[i].op = op /\ req[i].pc = pc

\* a request that has responded: what it read is gone, the response stays;
\* target is the pilot of a pilot's request, the report of a review
Done(op, target, resp) ==
    [op |-> op, pc |-> "done", target |-> target, resp |-> resp]

Retire ==
    /\ \E i \in Slots :
          /\ req[i].pc = "done"
          /\ req' = [req EXCEPT ![i] = Idle]
    /\ UNCHANGED <<now, users, rosters, nextRoster, pireps>>

\* POST /api/duty/start, line 1294: User.findById
BeginStartDuty ==
    /\ \E i \in Slots, p \in Pilots, rosterId \in 1..MaxRosterId :
          /\ CanBegin(i)
          /\ req' = [req EXCEPT ![i] =
                        [op |-> "startDuty", pc |-> "findRoster", resp |-> NoResponse,
                         p |-> p, rosterId |-> rosterId,
                         user |-> users[p], doc |-> users[p]]]
    /\ UNCHANGED <<now, users, rosters, nextRoster, pireps>>

\* line 1295: Roster.findById, then the checks of lines 1297-1328
StartDutyFindRoster ==
    /\ \E i \in Slots :
          /\ InFlight(i, "startDuty", "findRoster")
          /\ LET r == req[i]
                 d == startDutyDecision(r.p, r.user, FindRoster(r.rosterId),
                                        r.rosterId, now)
             IN  req' = [req EXCEPT ![i] =
                            IF d.save
                            THEN [r EXCEPT !.pc = "save", !.resp = d.resp, !.doc = d.doc]
                            ELSE Done("startDuty", r.p, d.resp)]
    /\ UNCHANGED <<now, users, rosters, nextRoster, pireps>>

\* line 1329: user.save()
StartDutySave ==
    /\ \E i \in Slots :
          /\ InFlight(i, "startDuty", "save")
          /\ users' = [users EXCEPT ![req[i].p] = SaveUser(@, req[i].user, req[i].doc)]
          /\ req' = [req EXCEPT ![i] = Done("startDuty", req[i].p, req[i].resp)]
    /\ UNCHANGED <<now, rosters, nextRoster, pireps>>

\* the reports that filings in flight may still store
PendingSaves ==
    Cardinality({j \in Slots : req[j].op = "fileReport" /\ req[j].pc # "done"})

\* POST /api/pireps, lines 924-944 and 982-991: the request checks,
\* User.findById, and the branch taken
BeginFileReport ==
    /\ Len(pireps) + PendingSaves < MaxPireps
    /\ \E i \in Slots, p \in Pilots, body \in ConcBodies :
          /\ CanBegin(i)
          /\ LET pilot == users[p]
                 r == [op |-> "fileReport", pc |-> "populate", resp |-> NoResponse,
                       p |-> p, body |-> body, pilot |-> pilot, roster |-> NULL,
                       data |-> newPirepData(p, body)]
             IN  req' = [req EXCEPT ![i] =
                    IF fileReportRequestError(p, body) # NoResponse
                    THEN Done("fileReport", p, fileReportRequestError(p, body))
                    ELSE IF pilot.dutyStatus = "ON_DUTY"
                    THEN IF pilot.currentRoster = NONE
                         THEN Done("fileReport", p,
                                   Response("fileReport", p, 400,
                                            "You are on duty but have no assigned roster."))
                         ELSE r
                    ELSE IF fileReportAdHocError(p, pilot, body) # NoResponse
                    THEN Done("fileReport", p, fileReportAdHocError(p, pilot, body))
                    ELSE [r EXCEPT !.pc = "save", !.data = fileReportAdHocData(p, body)]]
    /\ UNCHANGED <<now, users, rosters, nextRoster, pireps>>

\* line 946: pilot.populate('currentRoster'), then lines 947-964
FileReportPopulate ==
    /\ \E i \in Slots :
          /\ InFlight(i, "fileReport", "populate")
          /\ LET r == req[i]
                 roster == Populate(r.pilot)
                 err == fileReportOnDutyError(r.p, r.pilot, roster, r.body)
             IN  req' = [req EXCEPT ![i] =
                            IF err # NoResponse
                            THEN Done("fileReport", r.p, err)
                            ELSE [r EXCEPT !.pc = "findOne", !.roster = roster]]
    /\ UNCHANGED <<now, users, rosters, nextRoster, pireps>>

\* line 965: Pirep.findOne, then lines 971-979
FileReportFindOne ==
    /\ \E i \in Slots :
          /\ InFlight(i, "fileReport", "findOne")
          /\ LET r == req[i]
             IN  req' = [req EXCEPT ![i] =
                            IF ExistingPirep(pireps, r.p, r.pilot.currentRoster,
                                             r.body.flightNumber)
                            THEN Done("fileReport", r.p,
                                      Response("fileReport", r.p, 400,
                                               "You have already filed a PIREP for this roster leg."))
                            ELSE [r EXCEPT !.pc = "save", !.data =
                                     fileReportOnDutyData(r.p, r.pilot, r.roster, r.body)]]
    /\ UNCHANGED <<now, users, rosters, nextRoster, pireps>>

\* line 994: newPirep.save()
FileReportSave ==
    /\ \E i \in Slots :
          /\ InFlight(i, "fileReport", "save")
          /\ pireps' = fileReportSave(pireps, req[i].p, req[i].data).pireps
          /\ req' = [req EXCEPT ![i] =
                        Done("fileReport", req[i].p,
                             fileReportSave(pireps, req[i].p, req[i].data).resp)]
    /\ UNCHANGED <<now, users, rosters, nextRoster>>

\* PUT /api/pireps/:pirepId/approve, lines 1026-1028: Pirep.findById
BeginApprove ==
    /\ \E i \in Slots, id \in 1..MaxPireps, reviewer \in Staff :
          /\ CanBegin(i)
          /\ LET pirep == FindPirep(id)
             IN  req' = [req EXCEPT ![i] =
                            IF approveGuard(pirep) # NoResponse
                            THEN Done("approve", id, approveGuard(pirep))
                            ELSE [op |-> "approve", pc |-> "findPilot",
                                  resp |-> NoResponse,
                                  id |-> id, reviewer |-> reviewer,
                                  pirep |-> pirep, pilot |-> NULL, roster |-> NULL]]
    /\ UNCHANGED <<now, users, rosters, nextRoster, pireps>>

\* line 1034: User.findById; line 1041: Roster.findById for a report that
\* is eligible for the multiplier
ApproveFindPilot ==
    /\ \E i \in Slots :
          /\ InFlight(i, "approve", "findPilot")
          /\ LET r == req[i]
             IN  req' = [req EXCEPT ![i] =
                            [r EXCEPT !.pc = "savePilot",
                                      !.pilot = users[r.pirep.pilot],
                                      !.roster =
                                          IF approveNeedsRoster(r.pirep)
                                          THEN FindRoster(r.pirep.rosterLeg.rosterId)
                                          ELSE NULL]]
    /\ UNCHANGED <<now, users, rosters, nextRoster, pireps>>

\* line 1061: pilot.save()
ApproveSavePilot ==
    /\ \E i \in Slots :
          /\ InFlight(i, "approve", "savePilot")
          /\ LET r == req[i]
             IN  users' = [users EXCEPT ![r.pirep.pilot] =
                              SaveUser(@, r.pilot,
                                       approvePilotDoc(r.pilot, r.pirep, r.roster))]
          /\ req' = [req EXCEPT ![i].pc = "savePirep"]
    /\ UNCHANGED <<now, rosters, nextRoster, pireps>>

\* line 1062: pirep.save(), and the response
ApproveSavePirep ==
    /\ \E i \in Slots :
          /\ InFlight(i, "approve", "savePirep")
          /\ LET r == req[i]
             IN  /\ pireps' = [pireps EXCEPT ![r.id] =
                                  SavePirep(@, r.pirep,
                                            approvePirepDoc(r.pirep, r.reviewer))]
                 /\ req' = [req EXCEPT ![i] =
                               Done("approve", r.id,
                                    ResponseInfo("approve", 0, 200, "PIREP approved.",
                                        <<approvePilotDoc(r.pilot, r.pirep,
                                                          r.roster).flightHours>>))]
    /\ UNCHANGED <<now, users, rosters, nextRoster>>

\* the roster _ids that generation requests in flight will still take
PendingInserts ==
    LET n(j) == IF req[j].op = "generate" /\ req[j].pc # "done"
                THEN Len(req[j].generatedRosters) ELSE 0
    IN  n(1) + n(2)

\* POST /api/rosters/generate, lines 477-685: the sheets are fetched and
\* the rosters built before the store is touched
BeginGenerate ==
    /\ \E i \in Slots, allLegs \in LegPools :
          \E generatedRosters \in GeneratedRosters[allLegs] :
              /\ CanBegin(i)
              /\ nextRoster + PendingInserts + Len(generatedRosters) - 1 <= MaxRosterId
              /\ req' = [req EXCEPT ![i] =
                            IF Len(generatedRosters) > 0
                            THEN [op |-> "generate", pc |-> "deleteMany",
                                  resp |-> NoResponse,
                                  legsFound |-> Len(allLegs),
                                  generatedRosters |-> generatedRosters,
                                  deletedCount |-> 0]
                            ELSE Done("generate", 0,
                                      ResponseInfo("generate", 0, 201,
                                                   "Roster generation complete.",
                                                   <<0, Len(allLegs)>>))]
    /\ UNCHANGED <<now, users, rosters, nextRoster, pireps>>

\* line 688: Roster.deleteMany({ isGenerated: true })
GenerateDeleteMany ==
    /\ \E i \in Slots :
          /\ InFlight(i, "generate", "deleteMany")
          /\ rosters' = DeleteGenerated(rosters)
          /\ req' = [req EXCEPT
                        ![i].pc = "insertMany",
                        ![i].deletedCount =
                            Cardinality(DOMAIN rosters \ DOMAIN DeleteGenerated(rosters))]
    /\ UNCHANGED <<now, users, nextRoster, pireps>>

\* line 689: Roster.insertMany(generatedRosters), and the response
GenerateInsertMany ==
    /\ \E i \in Slots :
          /\ InFlight(i, "generate", "insertMany")
          /\ LET r == req[i]
             IN  IF AllRostersValid(r.generatedRosters)
                 THEN /\ rosters' = InsertMany(rosters, r.generatedRosters, nextRoster)
                      /\ nextRoster' = nextRoster + Len(r.generatedRosters)
                      /\ req' = [req EXCEPT ![i] =
                                    Done("generate", 0,
                                         ResponseInfo("generate", 0, 201,
                                                      "Roster generation complete.",
                                                      <<Len(r.generatedRosters), r.legsFound>>))]
                 ELSE /\ UNCHANGED <<rosters, nextRoster>>
                      /\ req' = [req EXCEPT ![i] =
                                    Done("generate", 0,
                                         Response("generate", 0, 500, "validation failed"))]
    /\ UNCHANGED <<now, users, pireps>>

\* lines 1192-1198: the airports searched
SearchLocations(user) ==
    LET known == {a \in {user.lastDutyAirport, user.lastKnownAirport} : Len(a) > 0}
    IN  IF known = {} THEN {VIDP} ELSE known

\* lines 1200-1209: whether the pilot's roster list shows the roster
Visible(user, roster) ==
    /\ roster.isAvailable
    /\ Len(roster.legs) > 0
    /\ roster.legs[1].departure \in SearchLocations(user)
    /\ \A k \in DOMAIN roster.legs :
          canFlyLeg(user.rank, getLegRequiredRank(roster.legs[k]))

\* GET /api/rosters/my-rosters, line 1189: User.findById
BeginMyRosters ==
    /\ \E i \in Slots, p \in Pilots :
          /\ CanBegin(i)
          /\ req' = [req EXCEPT ![i] =
                        [op |-> "myRosters", pc |-> "find", resp |-> NoResponse,
                         p |-> p, user |-> users[p]]]
    /\ UNCHANGED <<now, users, rosters, nextRoster, pireps>>

\* line 1200: Roster.find, and the response: the number of rosters listed
\* and the number of generated ones among them
MyRostersFind ==
    /\ \E i \in Slots :
          /\ InFlight(i, "myRosters", "find")
          /\ LET listed == {id \in DOMAIN rosters : Visible(req[i].user, rosters[id])}
             IN  req' = [req EXCEPT ![i] =
                            Done("myRosters", req[i].p,
                                 ResponseInfo("myRosters", req[i].p, 200, "rosters",
                                     <<Cardinality(listed),
                                       Cardinality({id \in listed : rosters[id].isGenerated})>>))]
    /\ UNCHANGED <<now, users, rosters, nextRoster, pireps>>

NextConc ==
    \/ Retire
    \/ BeginStartDuty
    \/ StartDutyFindRoster
    \/ StartDutySave
    \/ BeginFileReport
    \/ FileReportPopulate
    \/ FileReportFindOne
    \/ FileReportSave
    \/ BeginApprove
    \/ ApproveFindPilot
    \/ ApproveSavePilot
    \/ ApproveSavePirep
    \/ BeginGenerate
    \/ GenerateDeleteMany
    \/ GenerateInsertMany
    \/ BeginMyRosters
    \/ MyRostersFind

SpecConc == Init /\ [][NextConc]_vars

(***************************************************************************)
(* generateRostersFromGoogleSheet (part_001, lines 625-692) step by step,   *)
(* for the legs the ingestion collected: each random pick is a choice, and  *)
(* the locals of the run live in request slot 1.                            *)
(***************************************************************************)
\* a cycle VIDP - VABB - VOBL - VIDP of 4 h, 4 h and 3 h: a third leg would
\* pass the daily ceiling
LegPool2 ==
    << SheetLeg(FN1, VIDP, VABB, A320, H(4), "IndGo Cadet", "IndGo Air Virtual"),
       SheetLeg(FN2, VABB, VOBL, A320, H(4), "IndGo Cadet", "IndGo Air Virtual"),
       SheetLeg(FN3, VOBL, VIDP, A320, H(3), "IndGo Cadet", "IndGo Air Virtual") >>

\* the same cycle of 4 h, 4 h and 2 h: three legs reach the ceiling exactly
LegPool3 ==
    << SheetLeg(FN1, VIDP, VABB, A320, H(4), "IndGo Cadet", "IndGo Air Virtual"),
       SheetLeg(FN2, VABB, VOBL, A320, H(4), "IndGo Cadet", "IndGo Air Virtual"),
       SheetLeg(FN3, VOBL, VIDP, A320, H(2), "IndGo Cadet", "IndGo Air Virtual") >>

\* two legs leave VABB: after the 4 h leg one of them fits under the
\* ceiling and the other does not
LegPool4 ==
    << SheetLeg(FN1, VIDP, VABB, A320, H(4), "IndGo Cadet", "IndGo Air Virtual"),
       SheetLeg(FN2, VABB, VIDP, A320, H(9), "IndGo Cadet", "IndGo Air Virtual"),
       SheetLeg(FN3, VABB, VOBL, A320, H(2), "IndGo Cadet", "IndGo Air Virtual") >>

GenPools == { << >>, LegPool1, LegPool2, LegPool3, LegPool4 }

\* the run after the ingestion loop, line 623
SynthIngested(allLegs) ==
    [op |-> "synth", pc |-> "ingested", resp |-> NoResponse,
     allLegs |-> allLegs, airports |-> << >>, a |-> 1, i |-> 0,
     legCount |-> 0, j |-> 0, rosterLegs |-> << >>, currentAirport |-> << >>,
     totalTime |-> 0, usedFlightNumbers |-> {}, generatedRosters |-> << >>]

InitGen ==
    /\ now = Instants[1]
    /\ users = [p \in Pilots |-> NewUser]
    /\ rosters = << >>
    /\ nextRoster = 1
    /\ pireps = << >>
    /\ \E allLegs \in GenPools :
          req = [s \in Slots |-> IF s = 1 THEN SynthIngested(allLegs) ELSE Idle]

\* lines 625-641: the early return for no legs, and the grouping by departure
SynthGroup ==
    /\ InFlight(1, "synth", "ingested")
    /\ LET r == req[1]
       IN  req' = [req EXCEPT ![1] =
                      IF Len(r.allLegs) = 0
                      THEN [r EXCEPT !.pc = "done",
                                     !.resp = ResponseInfo("generate", 0, 201,
                                                  "Roster generation complete.", <<0, 0>>)]
                      ELSE [r EXCEPT !.pc = "roster",
                                     !.airports = DepartureAirports(r.allLegs)]]
    /\ UNCHANGED <<now, users, rosters, nextRoster, pireps>>

\* lines 643-653: the next (airport, i) and the locals of a new candidate
SynthNextRoster ==
    /\ InFlight(1, "synth", "roster")
    /\ LET r == req[1]
       IN  IF r.a > Len(r.airports)
           THEN req' = [req EXCEPT ![1].pc = "persist"]
           ELSE \E legCount \in 2..4 :
                    req' = [req EXCEPT ![1] =
                               [r EXCEPT !.pc = "leg",
                                         !.rosterLegs = << >>,
                                         !.currentAirport = r.airports[r.a],
                                         !.totalTime = 0,
                                         !.usedFlightNumbers = {},
                                         !.legCount = legCount,
                                         !.j = 0]]
    /\ UNCHANGED <<now, users, rosters, nextRoster, pireps>>

\* lines 655-667: one iteration of the inner loop
SynthNextLeg ==
    /\ InFlight(1, "synth", "leg")
    /\ LET r == req[1]
           possible == possibleNextLegs(r.allLegs, r.currentAirport, r.usedFlightNumbers)
       IN  IF r.j >= r.legCount \/ possible = {}
           THEN req' = [req EXCEPT ![1].pc = "push"]
           ELSE \E k \in possible :
                    LET nextLeg == r.allLegs[k]
                    IN  req' = [req EXCEPT ![1] =
                                   IF r.totalTime + nextLeg.flightTime > MAX_DAILY_FLIGHT_HOURS
                                   THEN [r EXCEPT !.pc = "push"]
                                   ELSE [r EXCEPT
                                            !.rosterLegs = Append(@, nextLeg),
                                            !.totalTime = @ + nextLeg.flightTime,
                                            !.currentAirport = nextLeg.arrival,
                                            !.usedFlightNumbers = @ \cup {nextLeg.flightNumber},
                                            !.j = @ + 1]]
    /\ UNCHANGED <<now, users, rosters, nextRoster, pireps>>

\* lines 669-684: the candidate is kept if it has two legs, and i++
SynthPush ==
    /\ InFlight(1, "synth", "push")
    /\ LET r == req[1]
           lastOfAirport == r.i + 1 = rosterCountPerAirport
       IN  \E randomMultiplier \in Multipliers :
               req' = [req EXCEPT ![1] =
                          [r EXCEPT
                              !.pc = "roster",
                              !.generatedRosters =
                                  IF Len(r.rosterLegs) >= 2
                                  THEN Append(@, [hub |-> r.airports[r.a],
                                                  legs |-> r.rosterLegs,
                                                  totalFlightTime |-> r.totalTime,
                                                  multiplier |-> randomMultiplier,
                                                  isGenerated |-> TRUE,
                                                  isAvailable |-> TRUE])
                                  ELSE @,
                              !.i = IF lastOfAirport THEN 0 ELSE @ + 1,
                              !.a = IF lastOfAirport THEN @ + 1 ELSE @]]
    /\ UNCHANGED <<now, users, rosters, nextRoster, pireps>>

\* lines 687-692: deleteMany, insertMany and the result
SynthPersist ==
    /\ InFlight(1, "synth", "persist")
    /\ LET r == req[1]
           out == generateRosters(r.allLegs, r.generatedRosters)
       IN  /\ rosters' = out.rosters
           /\ nextRoster' = out.nextRoster
           /\ req' = [req EXCEPT ![1].pc = "done", ![1].resp = out.resp]
    /\ UNCHANGED <<now, users, pireps>>

NextGen ==
    \/ SynthGroup
    \/ SynthNextRoster
    \/ SynthNextLeg
    \/ SynthPush
    \/ SynthPersist

SpecGen == InitGen /\ [][NextGen]_vars

(***************************************************************************)
(* generateRostersFromGoogleSheet (part_001, lines 480-623): the ingestion  *)
(* loop, one source per step, followed by the synthesis above.              *)
(***************************************************************************)
MaxSources == 3

\* Object.keys(headerAliases), lines 510-521 and 536-538
canonicalKeys(isCodeshare) ==
    {"flightNumber", "departure", "arrival", "aircraft", "flightTime"}
        \cup (IF isCodeshare THEN {"rankUnlock", "operator"} ELSE {})

\* a row of a parsed sheet: header is the set of keys of which some cell of
\* the row is an alias (lines 556-567), the other fields are the cells under
\* the mapped columns; a time cell "h:mm" is the pair <<h, mm>>
SheetRow(header, fn, dep, arr, ac, ft, rank, operator) ==
    [header |-> header, flightNumber |-> fn, departure |-> dep, arrival |-> arr,
     aircraft |-> ac, flightTime |-> ft, rankUnlock |-> rank, operator |-> operator]

HeaderRow(header) == SheetRow(header, << >>, << >>, << >>, << >>, << >>, "", "")

\* a source: fetched is FALSE when axios.get throws (line 541)
Sheet(isCodeshare, fetched, allRows) ==
    [isCodeshare |-> isCodeshare, fetched |-> fetched, allRows |-> allRows]

\* lines 480-502 for "h:mm" cells; NaN is NONE, an absent cell is << >>
convertTimeToDecimal(timeStr) ==
    IF timeStr = << >> THEN NONE
    ELSE H(timeStr[1]) + (H(timeStr[2]) \div 60)

\* lines 504-508: text.match(/^\s*([A-Z]{4})/); null is << >>
RECURSIVE extractIcao(_)
extractIcao(text) ==
    IF text = << >> THEN << >>
    ELSE IF Head(text) = " " THEN extractIcao(Tail(text))
    ELSE IF /\ Len(text) >= 4
            /\ \A k \in 1..4 : \E u \in DOMAIN UpperLetters : UpperLetters[u] = text[k]
         THEN SubSeq(text, 1, 4)
         ELSE << >>

\* lines 550-576: the first row in which every canonical key is mapped
headerRowIndex(source) ==
    LET keys == canonicalKeys(source.isCodeshare)
        qualifying == {i \in DOMAIN source.allRows :
                          source.allRows[i].header \cap keys = keys}
    IN  IF qualifying = {} THEN -1
        ELSE CHOOSE i \in qualifying : \A j \in qualifying : i <= j

\* lines 584-609: the leg of a data row, NULL for a row that is dropped
rowLeg(row, isCodeshare) ==
    LET departureIcao == extractIcao(row.departure)
        arrivalIcao == extractIcao(row.arrival)
        flightTime == convertTimeToDecimal(row.flightTime)
        rankUnlock == IF isCodeshare THEN row.rankUnlock
                      ELSE deduceRankFromAircraft(row.aircraft)
        operator == IF isCodeshare THEN row.operator ELSE "IndGo Air Virtual"
    IN  IF isCodeshare /\ (row.rankUnlock = "" \/ row.operator = "") THEN NULL
        ELSE IF /\ departureIcao # << >> /\ arrivalIcao # << >>
                /\ row.flightNumber # << >> /\ row.aircraft # << >>
                /\ flightTime # NONE /\ flightTime > 0
                /\ rankUnlock # "" /\ operator # ""
             THEN SheetLeg(row.flightNumber, departureIcao, arrivalIcao,
                           row.aircraft, flightTime, rankUnlock, operator)
             ELSE NULL

\* lines 578-611: dataRows.map(...).filter(leg => leg !== null)
legsFromSheet(source) ==
    LET h == headerRowIndex(source)
        dataRows == SubSeq(source.allRows, h + 1, Len(source.allRows))
        legs == [k \in DOMAIN dataRows |-> rowLeg(dataRows[k], source.isCodeshare)]
    IN  SelectSeq(legs, LAMBDA leg : leg # NULL)

\* fault: a failed fetch ends the ingestion with nothing collected
ingestSource_abortsOnFailure(allLegs, source) ==
    IF ~source.fetched THEN << >>
    ELSE IF Len(source.allRows) = 0 \/ headerRowIndex(source) = -1 THEN allLegs
    ELSE allLegs \o legsFromSheet(source)

\* lines 539-621, one iteration: allLegs after the source
ingestSource(allLegs, source) ==
    IF ~source.fetched THEN allLegs                      \* catch, lines 618-620
    ELSE IF Len(source.allRows) = 0 THEN allLegs         \* continue, line 547
    ELSE IF headerRowIndex(source) = -1 THEN allLegs     \* continue, line 579
    ELSE allLegs \o legsFromSheet(source)

BaseHeader == canonicalKeys(FALSE)

\* a source that cannot be fetched
SheetUnreachable == Sheet(FALSE, FALSE, << >>)

\* a fetched sheet without rows
SheetEmpty == Sheet(FALSE, TRUE, << >>)

\* a partner sheet whose header lacks the rank and operator columns
SheetNoHeader ==
    Sheet(TRUE, TRUE,
          << HeaderRow(BaseHeader),
             SheetRow({}, FN3, VIDP, VOBL, A320, <<1, 0>>, "IndGo Cadet", "Partner Air") >>)

\* a primary sheet: a title row, the header, a leg and a row without flight time
SheetPrimary ==
    Sheet(FALSE, TRUE,
          << HeaderRow({"flightNumber"}),
             HeaderRow(BaseHeader),
             SheetRow({}, FN1, <<" ">> \o VIDP \o <<" ", "D", "e", "l">>, VABB, A320,
                      <<2, 0>>, "", ""),
             SheetRow({}, FN3, VIDP, VOBL, A320, <<0, 0>>, "", "") >>)

\* a partner sheet: a leg tagged above the rank of its aircraft, and a row
\* without operator
SheetPartner ==
    Sheet(TRUE, TRUE,
          << HeaderRow(canonicalKeys(TRUE)),
             SheetRow({}, FN2, VABB, VIDP, A320, <<3, 30>>, "Skyline Observer", "Partner Air"),
             SheetRow({}, FN3, VABB, VOBL, A320, <<1, 0>>, "Skyline Observer", "") >>)

Sheets == {SheetUnreachable, SheetEmpty, SheetNoHeader, SheetPrimary, SheetPartner}

RECURSIVE SourceLists(_)
SourceLists(n) ==
    IF n = 0 THEN {<< >>}
    ELSE SourceLists(n - 1)
            \cup {Append(l, s) : l \in {x \in SourceLists(n - 1) : Len(x) = n - 1},
                                 s \in Sheets}

\* the run at line 523, with the sources of the two URL lists
InitIngest ==
    /\ now = Instants[1]
    /\ users = [p \in Pilots |-> NewUser]
    /\ rosters = << >>
    /\ nextRoster = 1
    /\ pireps = << >>
    /\ \E allUrls \in SourceLists(MaxSources) :
          req = [s \in Slots |->
                    IF s = 1
                    THEN [op |-> "synth", pc |-> "urls", resp |-> NoResponse,
                          allUrls |-> allUrls, url |-> 1, allLegs |-> << >>]
                    ELSE Idle]

\* lines 525-533: nothing to do without sources
IngestUrls ==
    /\ InFlight(1, "synth", "urls")
    /\ req' = [req EXCEPT ![1] =
                  IF Len(req[1].allUrls) = 0
                  THEN [@ EXCEPT !.pc = "done",
                                 !.resp = ResponseInfo("generate", 0, 201,
                                              "Roster generation complete.", <<0, 0>>)]
                  ELSE [@ EXCEPT !.pc = "fetch"]]
    /\ UNCHANGED <<now, users, rosters, nextRoster, pireps>>

\* lines 535-621: one source; after the last one the synthesis begins
IngestSource ==
    /\ InFlight(1, "synth", "fetch")
    /\ LET r == req[1]
           allLegs == ingestSource(r.allLegs, r.allUrls[r.url])
       IN  req' = [req EXCEPT ![1] =
                      IF r.url = Len(r.allUrls)
                      THEN SynthIngested(allLegs)
                      ELSE [r EXCEPT !.url = @ + 1, !.allLegs = allLegs]]
    /\ UNCHANGED <<now, users, rosters, nextRoster, pireps>>

NextIngest ==
    \/ IngestUrls
    \/ IngestSource
    \/ NextGen

SpecIngest == InitIngest /\ [][NextIngest]_vars

(***************************************************************************)
(* A pilot with a history (part_001): hours credited before, rosters and a  *)
(* report in the stores, staff assigning ranks, and months passing.         *)
(***************************************************************************)
\* the same flight number on both legs, the second flown on an A321
ManualLegs4 == << Leg(FN1, VIDP, VABB, A320, H(2)), Leg(FN1, VABB, VIDP, A321, H(3)) >>

\* a second leg on an aircraft of no tier
ManualLegs5 == << Leg(FN1, VIDP, VABB, A320, H(2)), Leg(FN3, VABB, VIDP, C172, H(3)) >>

\* the roster POST /api/rosters stores for the legs sent (lines 1240-1256)
ManualRoster(legs) ==
    [hub |-> VIDP,
     legs |-> [i \in DOMAIN legs |-> StoredLeg(legs[i])],
     totalFlightTime |-> SumFlightTime(legs),
     multiplier |-> CHOOSE m \in Multipliers : TRUE,
     isAvailable |-> TRUE,
     isGenerated |-> FALSE]

\* the report of 6 h waiting for review
CareerReport == Body(FN1, VIDP, VABB, A320, H(6), TRUE)

\* cumulative hours from which that report reaches a threshold exactly, or
\* misses it by a hundredth
CareerHours ==
    {0} \cup {rankThresholds[i] - CareerReport.flightTime - d :
                 i \in 2..Len(rankThresholds), d \in {0, 1}}

\* of those hours, at most this many were credited in the current month
CareerMonthly == H(96)

\* the rank strings a request can carry: the tiers, none, and the sentinel
RankInputs == {pilotRanks[i] : i \in DOMAIN pilotRanks} \cup {"", "Unknown"}

InitCareer ==
    /\ now = Instants[1]
    /\ \E h \in CareerHours :
          users = [p \in Pilots |->
                      LET pilot == [NewUser EXCEPT
                                       !.flightHours = h,
                                       !.monthlyFlightHours =
                                           IF h > CareerMonthly THEN CareerMonthly ELSE h]
                      IN  [pilot EXCEPT !.rank = checkAndApplyRankUpdate(pilot).rank]]
    /\ rosters = (1 :> ManualRoster(ManualLegs4)) @@ (2 :> ManualRoster(ManualLegs5))
    /\ nextRoster = 3
    /\ pireps = << StoredPirep(fileReportAdHocData(1, CareerReport)) >>
    /\ req = [i \in Slots |-> Idle]

\* PUT /api/users/:userId/rank
setRank(userId, newRank) ==
    IF newRank = "" \/ rankIndex(newRank) < 0
    THEN [resp |-> Response("setRank", 0, 400, "Invalid rank specified."),
          users |-> users]
    ELSE IF userId \notin DOMAIN users
    THEN [resp |-> Response("setRank", 0, 404, "User not found."),
          users |-> users]
    ELSE [resp |-> Response("setRank", 0, 200, "Successfully updated rank."),
          users |-> [users EXCEPT ![userId] =
                        SaveUser(@, @, [@ EXCEPT !.rank = newRank])]]

SetRank ==
    /\ \E userId \in Pilots \cup {NumPilots + 1}, newRank \in RankInputs :
          users' = setRank(userId, newRank).users
    /\ UNCHANGED <<now, rosters, nextRoster, pireps, req>>

\* time passes between requests: to the instant one month after the start,
\* and to the first instant after it
MonthInstants == {Instants[k] : k \in {4, 5}}

Elapse ==
    /\ \E t \in MonthInstants :
          /\ t > now
          /\ now' = t
    /\ UNCHANGED <<users, rosters, nextRoster, pireps, req>>

NextCareer ==
    \/ Elapse
    \/ SetRank
    \/ StartDuty
    \/ ApproveReport

SpecCareer == InitCareer /\ [][NextCareer]_vars

(***************************************************************************)
(* Properties: review of reports.                                          *)
(***************************************************************************)
\* C1: under any sequence of approve and reject requests the status of a
\* report changes at most once: once a report is no longer PENDING, its
\* status, its reviewer and its rejection reason never change again.
\* (server.js: a reject of an APPROVED report overwrites all three.)
C1_ReviewedReportIsFinal ==
    [][\A i \in DOMAIN pireps :
          pireps[i].status # "PENDING" =>
              /\ i \in DOMAIN pireps'
              /\ pireps'[i].status = pireps[i].status
              /\ pireps'[i].reviewedBy = pireps[i].reviewedBy
              /\ pireps'[i].rejectionReason = pireps[i].rejectionReason]_vars

C2_ApproveDenied ==
    \A id \in DOMAIN pireps, reviewer \in Staff :
        pireps[id].status # "PENDING" =>
            /\ approveReport(id, reviewer).resp.code = 400
            /\ approveReport(id, reviewer).users = users
            /\ approveReport(id, reviewer).pireps = pireps

C2_CreditConsumesPending ==
    /\ \A i \in DOMAIN pireps :
          pireps[i].status # "PENDING" =>
              i \in DOMAIN pireps' /\ pireps'[i].status # "PENDING"
    /\ \A p \in Pilots :
          users'[p].flightHours # users[p].flightHours =>
              \E i \in DOMAIN pireps :
                  /\ pireps[i].pilot = p
                  /\ pireps[i].status = "PENDING"
                  /\ pireps'[i].status = "APPROVED"
                  /\ users'[p].flightHours
                         = users[p].flightHours + pireps[i].flightTime
                  /\ \A j \in DOMAIN pireps \ {i} : pireps'[j] = pireps[j]

\* C2: an approve request for a report that is not PENDING is denied (400)
\* and leaves the pilot's hours and rank, and the report, as they were; and
\* in a sequential execution every change of a pilot's flight hours turns
\* exactly one PENDING report of that pilot into an APPROVED one, which
\* never becomes PENDING again: a report is credited at most once.
C2_ApproveOnlyPending ==
    []C2_ApproveDenied /\ [][C2_CreditConsumesPending]_vars

\* a report approved and credited once, for which a second approve is denied
C2_Witness ==
    \E i \in DOMAIN pireps :
        /\ pireps[i].status = "APPROVED"
        /\ users[pireps[i].pilot].flightHours = pireps[i].flightTime
        /\ approveReport(i, "pm2").resp.code = 400

(***************************************************************************)
(* Properties: duty lifecycle (server.js, where reports filed on duty are  *)
(* stored and a duty can be ended).                                        *)
(***************************************************************************)
\* C7: in every reachable state a pilot's dutyStatus is ON_DUTY if and only
\* if the pilot's currentRoster reference is non-null.
C7_OnDutyIffRoster ==
    \A p \in Pilots :
        (users[p].dutyStatus = "ON_DUTY") <=> (users[p].currentRoster # NONE)

\* a pilot on duty again after a completed duty and the rest period
C7_Witness ==
    \E p \in Pilots :
        /\ users[p].dutyStatus = "ON_DUTY"
        /\ users[p].currentRoster # NONE
        /\ users[p].lastDutyOff # NONE

\* report i of the store is linked to the roster and is a report of leg
C8_ReportOfLeg(i, p, rosterId, leg) ==
    /\ pireps[i].pilot = p
    /\ pireps[i].rosterLeg # NULL
    /\ pireps[i].rosterLeg.rosterId = rosterId
    /\ toUpperCase(pireps[i].flightNumber) = toUpperCase(leg.flightNumber)
    /\ toUpperCase(pireps[i].departure) = toUpperCase(leg.departure)
    /\ toUpperCase(pireps[i].arrival) = toUpperCase(leg.arrival)

\* C8: once a pilot has filed a report matching a leg of the assigned
\* roster, every later filing by that pilot matching the same leg is
\* rejected (400) and stores nothing, whatever the status of the first.
\* (The duplicate guard compares the flight number as sent, the leg match
\* ignores case: "6e1" after "6E1" is stored as a second report of the leg.)
C8_SecondFilingRejected ==
    \A p \in Pilots, body \in ReportBodies_srv :
        LET pilot == users[p]
            roster == Populate(pilot)
        IN  ( /\ pilot.dutyStatus = "ON_DUTY"
              /\ roster # NULL
              /\ FindLeg(roster, body) # 0
              /\ \E i \in DOMAIN pireps :
                    C8_ReportOfLeg(i, p, pilot.currentRoster,
                                   roster.legs[FindLeg(roster, body)]) )
            => /\ fileReport_srv(p, body).resp.code = 400
               /\ fileReport_srv(p, body).pireps = pireps

\* C9: an end-duty request of a pilot on duty is denied (400, with the
\* filed and the total count) while the number of PENDING or APPROVED
\* reports of the pilot linked to the roster is below the number of legs,
\* and is accepted as soon as the two are equal.
C9_EndDutyGate ==
    \A p \in Pilots :
        LET user == users[p]
            roster == Populate(user)
            filed == Cardinality({i \in DOMAIN pireps :
                                     /\ pireps[i].pilot = p
                                     /\ pireps[i].rosterLeg # NULL
                                     /\ pireps[i].rosterLeg.rosterId = user.currentRoster
                                     /\ pireps[i].status \in {"PENDING", "APPROVED"}})
        IN  (user.dutyStatus = "ON_DUTY" /\ roster # NULL) =>
                IF filed < Len(roster.legs)
                THEN /\ endDuty_srv(p).resp
                          = ResponseInfo("endDuty", p, 400,
                                         "You must file PIREPs for all roster legs.",
                                         <<filed, Len(roster.legs)>>)
                     /\ endDuty_srv(p).users = users
                ELSE /\ endDuty_srv(p).resp.code = 200
                     /\ endDuty_srv(p).users[p].dutyStatus = "ON_REST"

\* a duty ended with as many linked reports as the roster has legs
C9_Witness ==
    \E p \in Pilots :
        /\ users[p].dutyStatus = "ON_REST"
        /\ users[p].lastDutyOff # NONE
        /\ \E r \in DOMAIN rosters :
              Cardinality({i \in DOMAIN pireps :
                              /\ pireps[i].pilot = p
                              /\ pireps[i].rosterLeg # NULL
                              /\ pireps[i].rosterLeg.rosterId = r
                              /\ pireps[i].status \in {"PENDING", "APPROVED"}})
                  = Len(rosters[r].legs)

\* C10: whenever an end-duty request is accepted, every leg of the roster
\* has at least one PENDING or APPROVED report of the pilot linked to the
\* roster.  (The gate counts reports: two reports of one leg pass it.)
C10_EveryLegReported ==
    [][\A p \in Pilots :
          (users[p].dutyStatus = "ON_DUTY" /\ users'[p].dutyStatus = "ON_REST") =>
              LET roster == FindRoster(users[p].currentRoster)
              IN  \A k \in DOMAIN roster.legs :
                      \E i \in DOMAIN pireps :
                          /\ pireps[i].status \in {"PENDING", "APPROVED"}
                          /\ C8_ReportOfLeg(i, p, users[p].currentRoster,
                                            roster.legs[k])]_vars

(***************************************************************************)
(* Properties: interleaved requests (part_001).                            *)
(***************************************************************************)
\* C3: when two approve requests for the same PENDING report interleave,
\* the report's hours are added to the pilot's totals exactly once: if both
\* are accepted, both report the same new total and the pilot has it.
\* (Neither request sees the other's write: the second to read the pilot
\* after the first has saved adds the hours again.)
C3_CreditedOnce ==
    \A i \in Slots :
        ( /\ req[i].op = "approve" /\ req[i].pc = "done"
          /\ req[Other(i)].op = "approve" /\ req[Other(i)].pc = "done"
          /\ req[i].target = req[Other(i)].target
          /\ req[i].resp.code = 200 /\ req[Other(i)].resp.code = 200 )
        => /\ req[i].resp.info = req[Other(i)].resp.info
           /\ users[pireps[req[i].target].pilot].flightHours = req[i].resp.info[1]

\* C4: when two start-duty requests of the same resting pilot interleave,
\* at most one of them is accepted.
\* (Both read the pilot ON_REST before either saves.)
C4_OneStartAccepted ==
    \A i \in Slots :
        ( /\ req[i].op = "startDuty" /\ req[i].pc = "done"
          /\ req[Other(i)].op = "startDuty" /\ req[Other(i)].pc = "done"
          /\ req[i].target = req[Other(i)].target )
        => ~(req[i].resp.code = 200 /\ req[Other(i)].resp.code = 200)

\* C5: when two filings by the same pilot on duty for the same roster leg
\* interleave, at most one of them passes the duplicate-leg guard.
\* (Both run findOne before either saves; no unique index backs the guard.)
C5_OnePassesGuard ==
    \A i \in Slots :
        ~ ( /\ InFlight(i, "fileReport", "save")
            /\ InFlight(Other(i), "fileReport", "save")
            /\ req[i].p = req[Other(i)].p
            /\ req[i].data.rosterLeg # NULL
            /\ req[Other(i)].data.rosterLeg # NULL
            /\ req[i].data.rosterLeg.rosterId = req[Other(i)].data.rosterLeg.rosterId
            /\ FindLeg(req[i].roster, req[i].body)
                   = FindLeg(req[Other(i)].roster, req[Other(i)].body) )

\* C6: while a generation that replaces a non-empty set of generated
\* rosters by a non-empty new set is between its delete and its insert, a
\* pilot who would be shown the new rosters and asks for the available
\* rosters is shown at least one generated roster.
\* (deleteMany and insertMany are two operations: the list read between
\* them holds no generated roster.)
C6_ReaderSeesGenerated ==
    [][\A i \in Slots :
          ( /\ InFlight(i, "myRosters", "find")
            /\ req'[i].pc = "done"
            /\ InFlight(Other(i), "generate", "insertMany")
            /\ req[Other(i)].deletedCount > 0
            /\ \E k \in DOMAIN req[Other(i)].generatedRosters :
                  Visible(req[i].user, StoredRoster(req[Other(i)].generatedRosters[k])) )
          => req'[i].resp.info[2] > 0]_vars

(***************************************************************************)
(* Properties: the gates of duty start.                                    *)
(***************************************************************************)
C11_DeniedForRest(resp) == resp.code = 403 /\ resp.msg = "Crew rest required."

\* C11: a start-duty request is denied, and for rest (403) when the roster
\* exists and the pilot is not on duty, whenever the time elapsed since the
\* pilot's lastDutyOff is strictly below 8 h; it is not denied for rest when
\* the elapsed time is 8 h or more, nor when the pilot has no lastDutyOff.
\* Both revisions of the handler are examined on the same pilot and roster.
C11_RestGate ==
    \A p \in Pilots, rosterId \in 1..MaxRosterId :
        LET user == users[p]
            roster == FindRoster(rosterId)
            srv == startDuty_srv(p, rosterId)
            p001 == startDutyDecision(p, user, roster, rosterId, now)
        IN  IF user.lastDutyOff # NONE /\ now - user.lastDutyOff < 8
            THEN /\ srv.resp.code # 200 /\ srv.users = users
                 /\ p001.resp.code # 200 /\ ~p001.save
                 /\ (roster # NULL /\ user.dutyStatus # "ON_DUTY") =>
                        /\ C11_DeniedForRest(srv.resp)
                        /\ C11_DeniedForRest(p001.resp)
            ELSE /\ ~C11_DeniedForRest(srv.resp)
                 /\ ~C11_DeniedForRest(p001.resp)

\* a duty started at the very end of the rest period
C11_Witness ==
    \E p \in Pilots :
        /\ users[p].dutyStatus = "ON_DUTY"
        /\ users[p].lastDutyOff # NONE
        /\ users[p].lastDutyStart - users[p].lastDutyOff = 8

C12_DeniedFor(resp, msg) == resp.code = 403 /\ resp.msg = msg

\* C12: a start-duty request that reaches the quota checks is denied (403)
\* when monthlyFlightHours + roster.totalFlightTime is strictly above 100 h,
\* or else when dailyFlightHours + roster.totalFlightTime is strictly above
\* 10 h; a sum equal to its ceiling does not deny the request, which is
\* accepted when neither sum is above its ceiling.
\* Both revisions of the handler are examined on the same pilot and roster.
C12_QuotaGate ==
    \A p \in Pilots, rosterId \in DOMAIN rosters :
        LET user == users[p]
            roster == rosters[rosterId]
            srv == startDuty_srv(p, rosterId)
            p001 == startDutyDecision(p, user, roster, rosterId, now)
            monthly == IF user.lastHourReset < now - OneMonth
                       THEN 0 ELSE user.monthlyFlightHours
            monthlyMsg == "This duty would exceed your monthly limit."
            dailyMsg == "This duty would exceed your daily flight limit."
        IN  ( /\ user.dutyStatus # "ON_DUTY"
              /\ ~(user.lastDutyOff # NONE /\ now - user.lastDutyOff < 8) )
            => IF monthly + roster.totalFlightTime > H(100)
               THEN /\ C12_DeniedFor(srv.resp, monthlyMsg) /\ srv.users = users
                    /\ C12_DeniedFor(p001.resp, monthlyMsg) /\ ~p001.save
               ELSE IF user.dailyFlightHours + roster.totalFlightTime > H(10)
               THEN /\ C12_DeniedFor(srv.resp, dailyMsg) /\ srv.users = users
                    /\ C12_DeniedFor(p001.resp, dailyMsg) /\ ~p001.save
               ELSE /\ srv.resp.code = 200
                    /\ srv.users[p].dutyStatus = "ON_DUTY"
                    /\ p001.resp.msg \notin {monthlyMsg, dailyMsg}

\* a duty started with the monthly sum exactly at its ceiling
C12_Witness ==
    \E p \in Pilots :
        /\ users[p].dutyStatus = "ON_DUTY"
        /\ users[p].lastDutyStart = now
        /\ FindRoster(users[p].currentRoster) # NULL
        /\ users[p].monthlyFlightHours
               + FindRoster(users[p].currentRoster).totalFlightTime = H(100)

\* the pilot's tier is at or above the tier the leg requires
C13_Eligible(rank, leg) ==
    LET required == getLegRequiredRank(leg)
    IN  /\ rankIndex(rank) >= 0
        /\ rankIndex(required) >= 0
        /\ rankIndex(required) <= rankIndex(rank)

C13_AcceptedOnlyIfAllLegs ==
    \A p \in Pilots, rosterId \in DOMAIN rosters :
        LET out == startDuty(p, rosterId)
            legs == rosters[rosterId].legs
        IN  /\ out.resp.code = 200 =>
                  \A k \in DOMAIN legs : C13_Eligible(users[p].rank, legs[k])
            /\ (\E k \in DOMAIN legs : ~C13_Eligible(users[p].rank, legs[k])) =>
                  /\ out.resp.code # 200
                  /\ out.users = users

C13_BoundOnlyIfAllLegs ==
    \A p \in Pilots :
        (users[p].dutyStatus # "ON_DUTY" /\ users'[p].dutyStatus = "ON_DUTY") =>
            /\ users'[p].currentRoster \in DOMAIN rosters
            /\ \A k \in DOMAIN rosters[users'[p].currentRoster].legs :
                  C13_Eligible(users[p].rank,
                               rosters[users'[p].currentRoster].legs[k])

\* C13: a start-duty request is accepted only if the pilot's tier is at or
\* above the required tier of every leg of the chosen roster; one leg above
\* the pilot's rank denies the request as a whole and leaves the pilot as he
\* was, so every step that puts a pilot ON_DUTY binds him to a roster all of
\* whose legs he was eligible for at that moment.
C13_RankGate ==
    []C13_AcceptedOnlyIfAllLegs /\ [][C13_BoundOnlyIfAllLegs]_vars

\* a roster with one leg within and one leg above the rank of a resting
\* pilot, whose start-duty request for it is denied for rank
C13_Witness ==
    \E p \in Pilots, rosterId \in DOMAIN rosters :
        /\ \E k \in DOMAIN rosters[rosterId].legs :
              C13_Eligible(users[p].rank, rosters[rosterId].legs[k])
        /\ \E k \in DOMAIN rosters[rosterId].legs :
              ~C13_Eligible(users[p].rank, rosters[rosterId].legs[k])
        /\ startDuty(p, rosterId).resp.code = 403
        /\ startDuty(p, rosterId).resp.msg
               = "This roster includes a leg above your rank."

(***************************************************************************)
(* Properties: hours and rank.                                             *)
(***************************************************************************)
\* the pilot document after hours are added to the three totals of before;
\* factor is the multiplier in hundredths
C14_Adds(before, after, claimedHours, factor) ==
    /\ 100 * (after.flightHours - before.flightHours) = claimedHours * factor
    /\ 100 * (after.monthlyFlightHours - before.monthlyFlightHours)
           = claimedHours * factor
    /\ 100 * (after.dailyFlightHours - before.dailyFlightHours)
           = claimedHours * factor

\* the stored PENDING reports
C14_Stored ==
    \A id \in DOMAIN pireps, reviewer \in Staff :
        pireps[id].status = "PENDING" =>
            LET pirep == pireps[id]
                out == approveReport(id, reviewer)
                rosterExists == /\ pirep.rosterLeg # NULL
                                /\ pirep.rosterLeg.rosterId \in DOMAIN rosters
                factor == IF pirep.isMultiplierEligible /\ rosterExists
                          THEN rosters[pirep.rosterLeg.rosterId].multiplier
                          ELSE 100
            IN  /\ out.resp.code = 200
                /\ C14_Adds(users[pirep.pilot], out.users[pirep.pilot],
                            pirep.flightTime, factor)

\* lines 1037-1052 on the same reports had they been filed as the final leg
\* of roster rosterId, stored or not
C14_Eligible ==
    \A id \in DOMAIN pireps, rosterId \in 1..MaxRosterId :
        pireps[id].status = "PENDING" =>
            LET pirep == [pireps[id] EXCEPT
                             !.isMultiplierEligible = TRUE,
                             !.rosterLeg = [rosterId |-> rosterId,
                                            flightNumber |-> pireps[id].flightNumber]]
                pilot == users[pirep.pilot]
                roster == IF approveNeedsRoster(pirep)
                          THEN FindRoster(rosterId) ELSE NULL
                factor == IF rosterId \in DOMAIN rosters
                          THEN rosters[rosterId].multiplier ELSE 100
            IN  C14_Adds(pilot, approvePilotDoc(pilot, pirep, roster),
                         pirep.flightTime, factor)

\* C14: approving a PENDING report adds to the pilot's cumulative, monthly
\* and daily totals exactly claimedHours x roster.multiplier when the report
\* is multiplier-eligible and its roster is in the store, and exactly
\* claimedHours otherwise.
C14_HoursAwarded == C14_Stored /\ C14_Eligible

\* a report approved for its claimed hours, a second report PENDING, and a
\* roster with a multiplier above 1 in the store
C14_Witness ==
    /\ \E i \in DOMAIN pireps :
          /\ pireps[i].status = "APPROVED"
          /\ users[pireps[i].pilot].flightHours = pireps[i].flightTime
          /\ users[pireps[i].pilot].monthlyFlightHours = pireps[i].flightTime
          /\ users[pireps[i].pilot].dailyFlightHours = pireps[i].flightTime
    /\ \E i \in DOMAIN pireps : pireps[i].status = "PENDING"
    /\ \E rosterId \in DOMAIN rosters : rosters[rosterId].multiplier > 100

\* C15: from a newly registered pilot (lowest tier, 0 h) on, no step lowers
\* a pilot's tier index, whatever reports are approved.
C15_RankNeverDecreases ==
    [][\A p \in Pilots :
          rankIndex(users'[p].rank) >= rankIndex(users[p].rank)]_vars

\* a pilot promoted by one approval and credited again by a second
C15_Witness ==
    \E p \in Pilots :
        /\ users[p].rank = "Skyline Observer"
        /\ users[p].flightHours > H(50)
        /\ \A i \in DOMAIN pireps : pireps[i].status = "APPROVED"

\* C16: no start-duty, file-report, end-duty, approve or reject request,
\* each run to completion, lowers a pilot's cumulative flight hours.
C16_HoursNeverDecrease ==
    [][\A p \in Pilots : users'[p].flightHours >= users[p].flightHours]_vars

\* hours credited during a duty that has since been ended: the daily hours
\* are cleared, the cumulative hours kept
C16_Witness ==
    \E p \in Pilots :
        /\ users[p].flightHours > 0
        /\ users[p].dailyFlightHours = 0
        /\ users[p].dutyStatus = "ON_REST"
        /\ users[p].lastDutyOff # NONE
        /\ \E i \in DOMAIN pireps : pireps[i].status = "REJECTED"

(***************************************************************************)
(* Properties: rosters.                                                    *)
(***************************************************************************)
C17_WellFormed(roster) ==
    /\ Len(roster.legs) >= 2
    /\ \A k \in 1..(Len(roster.legs) - 1) :
          roster.legs[k].arrival = roster.legs[k + 1].departure
    /\ roster.totalFlightTime = SumFlightTime(roster.legs)
    /\ roster.totalFlightTime <= H(10)

\* C17: every roster the synthesizer produces, for any leg pool, has at
\* least 2 legs, each leg departing from where the previous one arrives, a
\* totalFlightTime equal to the sum of its legs' flight times and not above
\* 10 h; so has every generated roster as stored.
C17_GeneratedWellFormed ==
    /\ req[1].op = "synth" =>
          \A k \in DOMAIN req[1].generatedRosters :
              C17_WellFormed(req[1].generatedRosters[k])
    /\ \A id \in DOMAIN rosters :
          rosters[id].isGenerated => C17_WellFormed(rosters[id])

\* a finished run that stored a roster of three legs and exactly 10 h and a
\* roster of two legs
C17_Witness ==
    /\ InFlight(1, "synth", "done")
    /\ \E id \in DOMAIN rosters :
          Len(rosters[id].legs) = 3 /\ rosters[id].totalFlightTime = H(10)
    /\ \E id \in DOMAIN rosters : Len(rosters[id].legs) = 2

\* C18: every roster in the store, generated or created by a route
\* manager, has at least 2 legs and a total flight time of at most 10 h.
\* (POST /api/rosters asks for one leg and puts no ceiling on the total.)
C18_StoredRostersWellSized ==
    \A id \in DOMAIN rosters :
        /\ Len(rosters[id].legs) >= 2
        /\ rosters[id].totalFlightTime <= H(10)

\* C19: when a generation run returns {created: n}, the generated rosters
\* in the store are exactly the n rosters of that run, none of an earlier
\* run remaining, also when n = 0.
\* (Nothing is deleted when the run has no legs or synthesizes no roster.)
C19_RunReplacesGenerated ==
    \A allLegs \in LegPools :
        \A generatedRosters \in GeneratedRosters[allLegs] :
            LET out == generateRosters(allLegs, generatedRosters)
                created == out.resp.info[1]
                fresh == {nextRoster + k - 1 : k \in 1..created}
            IN  out.resp.code = 201 =>
                    /\ created = Len(generatedRosters)
                    /\ {id \in DOMAIN out.rosters : out.rosters[id].isGenerated} = fresh
                    /\ \A k \in 1..created :
                          out.rosters[nextRoster + k - 1]
                              = StoredRoster(generatedRosters[k])

\* C20: a generation run, whatever it synthesizes and whether or not its
\* insert succeeds, leaves every roster with isGenerated false in the store
\* exactly as it was.
C20_ManualUntouched ==
    \A allLegs \in LegPools :
        \A generatedRosters \in GeneratedRosters[allLegs] :
            LET out == generateRosters(allLegs, generatedRosters)
            IN  \A id \in DOMAIN rosters :
                    ~rosters[id].isGenerated =>
                        /\ id \in DOMAIN out.rosters
                        /\ out.rosters[id] = rosters[id]

\* a manual roster still in the store after a run that stored a roster
C20_Witness ==
    \E m \in DOMAIN rosters, g \in DOMAIN rosters :
        /\ ~rosters[m].isGenerated
        /\ rosters[g].isGenerated
        /\ m < g

(***************************************************************************)
(* Properties: ingestion of the sheets.                                    *)
(***************************************************************************)
\* the source has no row in which every canonical key is mapped
C21_NoHeader(source) ==
    \A i \in DOMAIN source.allRows :
        ~(canonicalKeys(source.isCodeshare) \subseteq source.allRows[i].header)

\* the run ends with the result of the generation, never with an error
C21_NoError ==
    (req[1].op = "synth" /\ req[1].pc = "done") => req[1].resp.code = 201

\* one source of the ingestion loop: the legs collected before stay, a
\* source that fails or has no header adds nothing, and every valid row
\* below the header of any other source is added
C21_SourceStep ==
    InFlight(1, "synth", "fetch") =>
        LET r == req[1]
            source == r.allUrls[r.url]
            before == r.allLegs
            after == req'[1].allLegs
            added == SubSeq(after, Len(before) + 1, Len(after))
        IN  /\ req'[1].pc \in {"fetch", "ingested"}
            /\ Len(after) >= Len(before)
            /\ SubSeq(after, 1, Len(before)) = before
            /\ (~source.fetched \/ C21_NoHeader(source)) => added = << >>
            /\ (source.fetched /\ ~C21_NoHeader(source)) =>
                  \A i \in DOMAIN source.allRows :
                      (/\ i > headerRowIndex(source)
                       /\ rowLeg(source.allRows[i], source.isCodeshare) # NULL)
                          => \E k \in DOMAIN added :
                                added[k] = rowLeg(source.allRows[i], source.isCodeshare)

\* C21: in a multi-source ingestion a source whose fetch fails or that has
\* no qualifying header row contributes zero legs, every valid leg of every
\* other source is still in the leg pool, and the batch completes without
\* error.
C21_SourcesIndependent == []C21_NoError /\ [][C21_SourceStep]_vars

\* a source with legs was followed by one that failed or had no header, and
\* the legs of the first are still collected
C21_Witness ==
    /\ InFlight(1, "synth", "fetch")
    /\ req[1].url = 3
    /\ req[1].allUrls[1] = SheetPrimary
    /\ req[1].allUrls[2] \in {SheetUnreachable, SheetNoHeader}
    /\ Len(req[1].allLegs) = 1
    /\ req[1].allLegs[1].flightNumber = FN1

(***************************************************************************)
(* Properties: rank eligibility and the duty gates of a pilot with a        *)
(* history.                                                                 *)
(***************************************************************************)
\* the rank is one of the ordered tiers
C22_Tier(r) == \E i \in DOMAIN pilotRanks : pilotRanks[i] = r

C22_Position(r) == CHOOSE i \in DOMAIN pilotRanks : pilotRanks[i] = r

\* both ranks are tiers and the pilot's is not below the required one
C22_Eligible(pilotRank, requiredRank) ==
    /\ C22_Tier(pilotRank)
    /\ C22_Tier(requiredRank)
    /\ C22_Position(pilotRank) >= C22_Position(requiredRank)

\* C22: canFly(pilotRank, requiredRank) is true exactly when both ranks are
\* tiers and the pilot's tier is not below the required one; it is false for
\* an undefined, empty or 'Unknown' rank on either side, so a roster with a
\* leg whose required rank is unknown cannot be started by a pilot of any
\* rank.
C22_FailsClosed ==
    /\ \A a \in RankInputs \cup {users[p].rank : p \in Pilots}, b \in RankInputs :
          canFlyLeg(a, b) <=> C22_Eligible(a, b)
    /\ \A p \in Pilots, rosterId \in DOMAIN rosters :
          (\E k \in DOMAIN rosters[rosterId].legs :
              ~C22_Tier(getLegRequiredRank(rosters[rosterId].legs[k])))
              => startDuty(p, rosterId).resp.code # 200

\* a pilot of the highest tier is refused a roster with a leg of no tier
C22_Witness ==
    \E p \in Pilots, rosterId \in DOMAIN rosters :
        /\ users[p].rank = pilotRanks[Len(pilotRanks)]
        /\ \E k \in DOMAIN rosters[rosterId].legs :
              getLegRequiredRank(rosters[rosterId].legs[k]) = "Unknown"
        /\ startDuty(p, rosterId).resp.msg = "This roster includes a leg above your rank."

\* C23: a startDuty request that is denied for any reason leaves the stored
\* pilot record unchanged, including monthlyFlightHours and lastHourReset
\* when the monthly reset condition was met during that request.
C23_DeniedLeavesPilot ==
    \A p \in Pilots, rosterId \in 1..(MaxRosterId + 1) :
        startDuty(p, rosterId).resp.code # 200
            => startDuty(p, rosterId).users = users

\* a request is denied for rank more than a month after the last reset
C23_Witness ==
    \E p \in Pilots, rosterId \in DOMAIN rosters :
        /\ users[p].lastHourReset < now - OneMonth
        /\ startDuty(p, rosterId).resp.code = 403
        /\ resetMonthlyHours(users[p], now) # users[p]

(***************************************************************************)
(* Properties: the end of a duty.                                          *)
(***************************************************************************)
\* the stored pilot after an accepted end of duty
C24_Ended(before, after, roster) ==
    /\ after.lastDutyAirport = roster.legs[Len(roster.legs)].arrival
    /\ after.dutyStatus = "ON_REST"
    /\ after.currentRoster = NONE
    /\ after.lastDutyStart = NONE
    /\ after.lastDutyOff = now
    /\ after.dailyFlightHours = 0
    /\ after.flightHours = before.flightHours
    /\ after.monthlyFlightHours = before.monthlyFlightHours
    /\ after.rank = before.rank

\* C24: a successful endDuty sets lastDutyAirport to the arrival of the bound
\* roster's final leg, sets dutyStatus to resting, clears currentRoster and
\* lastDutyStart, stamps lastDutyOff with the current time, sets
\* dailyFlightHours to 0, and changes no cumulative or monthly hours and no
\* rank; the handler of part_001, given the same reads, stores the same.
C24_EndDutyEffects ==
    \A p \in Pilots :
        LET user == users[p]
            roster == Populate(user)
            filed == IF user.dutyStatus = "ON_DUTY" /\ roster # NULL
                     THEN Cardinality(FiledPireps_srv(p, user.currentRoster)) ELSE 0
            d == endDutyDecision(p, user, roster, filed, now)
        IN  /\ endDuty_srv(p).resp.code = 200
                  => C24_Ended(user, endDuty_srv(p).users[p], roster)
            /\ d.save => C24_Ended(user, SaveUser(user, user, d.doc), roster)
            /\ d.save <=> endDuty_srv(p).resp.code = 200

\* a duty is about to end for a pilot with hours credited during it
C24_Witness ==
    \E p \in Pilots :
        /\ endDuty_srv(p).resp.code = 200
        /\ users[p].dailyFlightHours > 0
        /\ users[p].flightHours > 0
        /\ users[p].lastDutyAirport # Populate(users[p]).legs[Len(Populate(users[p]).legs)].arrival

(***************************************************************************)
(* Properties: filing a report.                                            *)
(***************************************************************************)
\* the legs of the roster that the filing names, ignoring case
C25_MatchedLegs(roster, body) ==
    {k \in DOMAIN roster.legs :
        /\ toUpperCase(roster.legs[k].flightNumber) = toUpperCase(body.flightNumber)
        /\ toUpperCase(roster.legs[k].departure) = toUpperCase(body.departure)
        /\ toUpperCase(roster.legs[k].arrival) = toUpperCase(body.arrival)}

\* the pilot has a report for that flight number of that roster
C25_Duplicate(p, rosterId, body) ==
    \E i \in DOMAIN pireps :
        /\ pireps[i].pilot = p
        /\ pireps[i].rosterLeg # NULL
        /\ pireps[i].rosterLeg.rosterId = rosterId
        /\ toUpperCase(pireps[i].rosterLeg.flightNumber) = toUpperCase(body.flightNumber)

\* C25: a fileReport by an ON_DUTY pilot that matches a leg of the bound
\* roster by flight number, departure and arrival (case-insensitively), is
\* rank-eligible and is not a duplicate is accepted, and a PENDING report
\* linked to {rosterId, flightNumber} is stored; a filing that matches no leg
\* is denied and stores nothing.
C25_OnDutyFilingStored ==
    \A p \in Pilots, body \in ReportBodies :
        LET pilot == users[p]
            roster == Populate(pilot)
            out == fileReport(p, body)
            matched == C25_MatchedLegs(roster, body)
            stored == out.pireps[Len(out.pireps)]
        IN  (/\ pilot.dutyStatus = "ON_DUTY"
             /\ roster # NULL
             /\ fileReportRequestError(p, body) = NoResponse)
            => /\ (/\ matched # {}
                   /\ \A k \in matched :
                         C22_Eligible(pilot.rank, getLegRequiredRank(roster.legs[k]))
                   /\ ~C25_Duplicate(p, pilot.currentRoster, body))
                      => /\ out.resp.code = 201
                         /\ Len(out.pireps) = Len(pireps) + 1
                         /\ stored.status = "PENDING"
                         /\ stored.rosterLeg = [rosterId |-> pilot.currentRoster,
                                                flightNumber |-> body.flightNumber]
               /\ matched = {} => (out.resp.code = 400 /\ out.pireps = pireps)


\* C26: a report filed while ON_DUTY is marked multiplier-eligible if and
\* only if the roster leg it matched is the final leg of the bound roster,
\* for every roster including manually created ones in which a flight
\* number occurs on more than one leg.
C26_EligibleIffFinalLeg ==
    \A p \in Pilots, body \in ReportBodies :
        LET pilot == users[p]
            roster == Populate(pilot)
        IN  (/\ pilot.dutyStatus = "ON_DUTY"
             /\ roster # NULL
             /\ fileReportRequestError(p, body) = NoResponse
             /\ fileReportOnDutyError(p, pilot, roster, body) = NoResponse)
            => (fileReportOnDutyData(p, pilot, roster, body).isMultiplierEligible
                    <=> C25_MatchedLegs(roster, body) = {Len(roster.legs)})

\* the stored report of a filing that was accepted
C27_Stored(out) == out.pireps[Len(out.pireps)]

\* C27: a fileReport by a RESTING pilot is accepted as an off-roster report
\* exactly when canFly(pilot.rank, rank derived from the reported aircraft)
\* holds; the stored report carries no roster link and is never
\* multiplier-eligible, and a report whose aircraft maps to the unknown
\* sentinel is denied.
C27_OffRosterFiling ==
    /\ \A p \in Pilots, body \in ReportBodies :
          LET pilot == users[p]
              out == fileReport(p, body)
              needed == deduceRankFromAircraft(body.aircraft)
          IN  (/\ pilot.dutyStatus = "ON_REST"
               /\ fileReportRequestError(p, body) = NoResponse)
              => /\ out.resp.code = 201 <=> C22_Eligible(pilot.rank, needed)
                 /\ out.resp.code = 201
                       => /\ Len(out.pireps) = Len(pireps) + 1
                          /\ C27_Stored(out).status = "PENDING"
                          /\ C27_Stored(out).rosterLeg = NULL
                          /\ ~C27_Stored(out).isMultiplierEligible
                 /\ out.resp.code # 201
                       => (out.resp.code = 403 /\ out.pireps = pireps)
                 /\ needed = "Unknown" => out.resp.code = 403
    /\ \A i \in DOMAIN pireps :
          pireps[i].rosterLeg = NULL => ~pireps[i].isMultiplierEligible

\* a pilot promoted to the second tier has a stored off-roster report of a
\* flight on an A321, and is refused one on an aircraft of no tier
C27_Witness ==
    \E p \in Pilots, i \in DOMAIN pireps :
        /\ users[p].dutyStatus = "ON_REST"
        /\ users[p].rank = pilotRanks[2]
        /\ pireps[i].pilot = p
        /\ pireps[i].aircraft = A321
        /\ pireps[i].rosterLeg = NULL
        /\ \E body \in ReportBodies :
              /\ deduceRankFromAircraft(body.aircraft) = "Unknown"
              /\ fileReport(p, body).resp.code = 403


(***************************************************************************)
(* Properties: the rank a leg requires, and promotion.                      *)
(***************************************************************************)
\* C28: for a leg ingested from a partner source with a valid explicit rank
\* tag T and persisted inside a generated roster, the rank required of a
\* pilot at startDuty, fileReport and listAvailableRosters for that leg is
\* T, not the rank derived from the leg's aircraft string.
C28_TagIsRequiredRank ==
    (/\ InFlight(1, "synth", "done")
     /\ req[1].resp.code = 201
     /\ req[1].resp.info[1] > 0)
    => LET generated == req[1].generatedRosters
       IN  \A k \in DOMAIN generated : \A j \in DOMAIN generated[k].legs :
               LET T == generated[k].legs[j].rankUnlock
                   id == nextRoster - Len(generated) + k - 1
               IN  C22_Tier(T)
                   => /\ getLegRequiredRank(rosters[id].legs[j]) = T
                      /\ \A p \in Pilots :
                            ~C22_Eligible(users[p].rank, T)
                                => /\ startDuty(p, id).resp.code # 200
                                   /\ ~Visible(users[p], rosters[id])

\* C29: for every pilot with cumulative hours h >= 0, after promotionCheck
\* the pilot's rank is the highest tier in the ordered tier list whose
\* threshold is <= h.
C29_RankIsHighestReached ==
    \A id \in DOMAIN pireps, reviewer \in Staff :
        LET out == approveReport(id, reviewer)
            after == out.users[pireps[id].pilot]
            tier == CHOOSE i \in DOMAIN rankThresholds :
                        /\ rankThresholds[i] <= after.flightHours
                        /\ i < Len(rankThresholds)
                              => after.flightHours < rankThresholds[i + 1]
        IN  out.resp.code = 200
                => /\ after.flightHours >= 0
                   /\ after.rank = pilotRanks[tier]

\* a report was approved that brought the hours to the threshold of the
\* highest tier exactly, and the pilot holds that tier
C29_Witness ==
    \E id \in DOMAIN pireps :
        /\ pireps[id].status = "APPROVED"
        /\ users[pireps[id].pilot].flightHours = rankThresholds[Len(rankThresholds)]
        /\ users[pireps[id].pilot].rank = pilotRanks[Len(pilotRanks)]

\* C30: for every combination of current rank and cumulative hours
\* (including a rank assigned by staff above the hours-derived tier),
\* promotionCheck never leaves the pilot at a lower tier index than before,
\* and it reports a promotion only when the tier index strictly increased.
C30_NeverDemotes ==
    \A id \in DOMAIN pireps, reviewer \in Staff :
        LET out == approveReport(id, reviewer)
            pirep == pireps[id]
            before == users[pirep.pilot]
            after == out.users[pirep.pilot]
            result == checkAndApplyRankUpdate(
                          approvePilotDoc(before, pirep,
                              IF approveNeedsRoster(pirep)
                              THEN FindRoster(pirep.rosterLeg.rosterId) ELSE NULL))
        IN  out.resp.code = 200
                => /\ C22_Position(after.rank) >= C22_Position(before.rank)
                   /\ result.promoted
                         => C22_Position(result.rank) > C22_Position(before.rank)

-----------------------------------------------------------------------------
\* C31 (src/unnamed/part_001 lines 655-668)

\* the legs the claim calls eligible for the candidate being built: they
\* leave the current airport, their flight number is unused, and they keep
\* the cumulative time within the daily ceiling
C31_Eligible(r) ==
    {k \in DOMAIN r.allLegs :
        /\ r.allLegs[k].departure = r.currentAirport
        /\ r.allLegs[k].flightNumber \notin r.usedFlightNumbers
        /\ r.totalTime + r.allLegs[k].flightTime <= MAX_DAILY_FLIGHT_HOURS}

\* C31: every step of the inner loop that adds a leg adds an eligible leg,
\* and a step that ends a candidate short of its leg-count target is taken
\* only when no eligible leg exists.
C31_StopsOnlyWithoutEligibleLeg ==
    [][ (req[1].op = "synth" /\ req[1].pc = "leg")
        => /\ Len(req'[1].rosterLegs) > Len(req[1].rosterLegs)
                => \E k \in C31_Eligible(req[1]) :
                      req'[1].rosterLegs = Append(req[1].rosterLegs, req[1].allLegs[k])
           /\ (req'[1].pc = "push" /\ req[1].j < req[1].legCount)
                => C31_Eligible(req[1]) = {} ]_vars

-----------------------------------------------------------------------------
\* C32 (src/unnamed/part_001 lines 1305-1313, 1326-1329)

\* the request is denied by the monthly quota check of line 1311
C32_MonthlyDenied(out) ==
    /\ out.resp.code = 403
    /\ out.resp.msg = "This duty would exceed your monthly limit."

\* C32: a start-duty request made more than one month after lastHourReset
\* is checked against the monthly quota with monthlyFlightHours taken as 0,
\* and when it is accepted the stored monthlyFlightHours is 0 and the stored
\* lastHourReset is the request time; a request made at most one month after
\* lastHourReset changes neither field.
C32_MonthlyReset ==
    \A p \in Pilots : \A rosterId \in 1..MaxRosterId :
        LET out == startDuty(p, rosterId)
            before == users[p]
            after == out.users[p]
        IN  IF now - before.lastHourReset > OneMonth
            THEN /\ C32_MonthlyDenied(out)
                      => exceedsLimit(0, FindRoster(rosterId).totalFlightTime,
                                      MAX_MONTHLY_FLIGHT_HOURS)
                 /\ out.resp.code = 200
                      => /\ after.monthlyFlightHours = 0
                         /\ after.lastHourReset = now
            ELSE /\ after.monthlyFlightHours = before.monthlyFlightHours
                 /\ after.lastHourReset = before.lastHourReset
                 /\ C32_MonthlyDenied(out)
                      <=> /\ FindRoster(rosterId) # NULL
                          /\ before.dutyStatus # "ON_DUTY"
                          /\ ~crewRestRequired(before, now)
                          /\ exceedsLimit(before.monthlyFlightHours,
                                          FindRoster(rosterId).totalFlightTime,
                                          MAX_MONTHLY_FLIGHT_HOURS)

\* a request more than one month after the last reset is accepted although
\* the stored monthly hours plus the roster's time pass the monthly quota
C32_Witness ==
    \E p \in Pilots : \E rosterId \in 1..MaxRosterId :
        /\ now - users[p].lastHourReset > OneMonth
        /\ FindRoster(rosterId) # NULL
        /\ exceedsLimit(users[p].monthlyFlightHours,
                        FindRoster(rosterId).totalFlightTime, MAX_MONTHLY_FLIGHT_HOURS)
        /\ startDuty(p, rosterId).resp.code = 200
        /\ startDuty(p, rosterId).users[p].monthlyFlightHours = 0
        /\ startDuty(p, rosterId).users[p].lastHourReset = now

-----------------------------------------------------------------------------
\* C33 (src/unnamed/part_001 lines 1034-1062, 1338-1372)

\* C33: when two accepted approvals of different reports of one pilot have
\* overlapped, the pilot's record is the one a serial order gives: one
\* approval saw the other's award, and the stored cumulative hours hold both
\* awards.
C33_ApprovalsSerializable ==
    \A i \in Slots :
        ( /\ req[i].op = "approve" /\ req[i].pc = "done"
          /\ req[Other(i)].op = "approve" /\ req[Other(i)].pc = "done"
          /\ req[i].target # req[Other(i)].target
          /\ req[i].resp.code = 200 /\ req[Other(i)].resp.code = 200
          /\ pireps[req[i].target].pilot = pireps[req[Other(i)].target].pilot )
        => \E first \in {i, Other(i)} :
              LET second == Other(first)
                  p == pireps[req[second].target].pilot
              IN  /\ req[second].resp.info[1]
                        = req[first].resp.info[1] + pireps[req[second].target].flightTime
                  /\ users[p].flightHours = req[second].resp.info[1]

-----------------------------------------------------------------------------
\* C34 (src/unnamed/part_001 lines 943-995, 1338-1372, 1098-1123, 258-281)

\* the pilot keeps sending requests and the server answers each of them: a
\* filing or an end-duty request that stays able to change the store is
\* eventually served
PilotFairness == WF_vars(FileReport) /\ WF_vars(EndDuty)

\* part_001 with atomic handlers and a pilot who keeps filing and ending
SpecFair == Init /\ [][Next]_vars /\ PilotFairness

\* C34: a pilot who is ON_DUTY is eventually ON_REST.
C34_DutyEnds ==
    \A p \in Pilots : (users[p].dutyStatus = "ON_DUTY") ~> (users[p].dutyStatus = "ON_REST")

-----------------------------------------------------------------------------
\* C35 (src/unnamed/part_001 lines 1037-1062, 1098-1123)

\* failed approvals are explored while the pilot has fewer hours than this
MaxCreditedHours == 6

\* PUT /api/pireps/:pirepId/approve when pirep.save() of line 1062 fails
\* after pilot.save() of line 1061 has written: the catch of lines 1092-1095
\* answers 500 and nothing is undone
approveReportInterrupted(id, reviewer) ==
    LET pirep == FindPirep(id)
    IN  IF approveGuard(pirep) # NoResponse
        THEN [resp |-> approveGuard(pirep), users |-> users, pireps |-> pireps]
        ELSE LET pilot == users[pirep.pilot]
                 roster == IF approveNeedsRoster(pirep)
                           THEN FindRoster(pirep.rosterLeg.rosterId) ELSE NULL
                 pilotDoc == approvePilotDoc(pilot, pirep, roster)
             IN  [resp |-> Response("approve", 0, 500, "Server error while approving PIREP."),
                  users |-> [users EXCEPT ![pirep.pilot] = SaveUser(@, pilot, pilotDoc)],
                  pireps |-> pireps]

ApproveReportInterrupted ==
    /\ \E id \in 1..MaxPireps, reviewer \in Staff :
          /\ FindPirep(id) # NULL
          /\ users[FindPirep(id).pilot].flightHours < H(MaxCreditedHours)
          /\ users' = approveReportInterrupted(id, reviewer).users
          /\ pireps' = approveReportInterrupted(id, reviewer).pireps
    /\ UNCHANGED <<now, rosters, nextRoster, req>>

NextFail ==
    \/ FileReport
    \/ ApproveReport
    \/ RejectReport
    \/ ApproveReportInterrupted

\* the filing and the reviews of part_001, with approvals that may fail
\* between their two writes
SpecFail == Init /\ [][NextFail]_vars

\* the hours awarded for the APPROVED reports of pilot p among the first n
RECURSIVE C35_Awarded(_, _)
C35_Awarded(p, n) ==
    IF n = 0 THEN 0
    ELSE C35_Awarded(p, n - 1)
         + IF pireps[n].pilot = p /\ pireps[n].status = "APPROVED"
           THEN hoursToAdd(pireps[n],
                           IF approveNeedsRoster(pireps[n])
                           THEN FindRoster(pireps[n].rosterLeg.rosterId) ELSE NULL)
           ELSE 0

\* C35: the cumulative hours of every pilot are the sum of the hours awarded
\* for that pilot's APPROVED reports; PENDING and REJECTED reports have
\* credited nothing.
C35_HoursAreApprovedAwards ==
    \A p \in Pilots : users[p].flightHours = C35_Awarded(p, Len(pireps))

-----------------------------------------------------------------------------
\* C36 (src/unnamed/part_001 lines 1311-1316, 1049-1052, 980-995)

\* C36: no pilot's monthly flight hours pass the monthly quota and no
\* pilot's daily flight hours pass the daily ceiling.
C36_QuotasHold ==
    \A p \in Pilots :
        /\ users[p].monthlyFlightHours <= MAX_MONTHLY_FLIGHT_HOURS
        /\ users[p].dailyFlightHours <= MAX_DAILY_FLIGHT_HOURS

-----------------------------------------------------------------------------
\* C37 (src/unnamed/part_001 lines 1049-1052, 1360-1365, 1314-1316)

\* C37: a pilot who is ON_REST has no daily flight hours.
C37_RestingHasNoDailyHours ==
    \A p \in Pilots :
        users[p].dutyStatus = "ON_REST" => users[p].dailyFlightHours = 0

-----------------------------------------------------------------------------
\* C38 (src/unnamed/part_001 lines 965-973, 1344-1353, 1326-1329)

\* a filing is refused as a duplicate of an earlier report
C38_DeniedAsDuplicate(out) ==
    /\ out.resp.code = 400
    /\ out.resp.msg = "You have already filed a PIREP for this roster leg."

\* C38: right after an accepted start of duty no report of the new duty
\* period exists, so an end-duty request is not accepted and no filing is
\* refused as a duplicate, whatever was filed in earlier duty periods.
C38_NewDutyPeriodStartsEmpty ==
    [][ \A p \in Pilots :
          (users[p].dutyStatus = "ON_REST" /\ users'[p].dutyStatus = "ON_DUTY")
          => ( /\ endDuty_srv(p).resp.code # 200
               /\ \A body \in ReportBodies_srv :
                     ~C38_DeniedAsDuplicate(fileReport_srv(p, body)) )' ]_vars

-----------------------------------------------------------------------------
\* C39 (src/unnamed/part_001 lines 1276-1289, 687-692, 943-953, 1340-1344)

\* C39: the roster a pilot on duty is bound to is in the store.
C39_BoundRosterExists ==
    \A p \in Pilots :
        users[p].dutyStatus = "ON_DUTY" => FindRoster(users[p].currentRoster) # NULL

=============================================================================
